---- MODULE Spec2Model ----
(***************************************************************************)
(* A model of the Tech API client (custom_components/tech/tech.py) and of  *)
(* the polling coordinator that drives it (coordinator.py).                *)
(*                                                                         *)
(* Encoding of Python values:                                              *)
(*   dict            a record (a function whose domain is its key set)     *)
(*   None            the record None (the only record with key "isNone")   *)
(*   list            the record [list |-> <<...>>]                         *)
(*   str None        user_id and token are strings; their None is NoneStr  *)
(*   dict[int, ...]  a function whose domain is the set of its keys        *)
(* Every coroutine runs atomically between two suspension points: the      *)
(* awaits on the network and the wait for the update lock.                 *)
(***************************************************************************)
EXTENDS Integers, Sequences, FiniteSets, TLC

\* ---------------------------------------------------------------- bounds
NTasks == 2
MaxLen == 2
MaxClock == 1

Tasks == 1..NTasks
Udids == {"m1", "m2"}
Ids == {1, 2}
Users == {"u1"}
UserIds == {1}
Tokens == {"k1", "k2"}

\* ------------------------------------------------------- Python values
None == [isNone |-> TRUE]
NoneStr == "None"
IsNone(v) == "isNone" \in DOMAIN v
List(s) == [list |-> s]
EmptyDict == [k \in {} |-> None]

\* Python truthiness of an optional list: None and [] are falsy.
Falsy(v) == IsNone(v) \/ Len(v.list) = 0

\* Mutant of Put: the dict is replaced by one that holds the new entry alone.
PutAlone(d, k, v) == [x \in {k} |-> v]

\* Mutant of Put: the entry is stored under the next free index, not its id.
PutNext(d, k, v) ==
    [x \in (DOMAIN d) \cup {Cardinality(DOMAIN d) + 1} |->
        IF x = Cardinality(DOMAIN d) + 1 THEN v ELSE d[x]]

\* Mutant of Put: an id that is cached keeps its entry (the first writer wins).
PutIfAbsent(d, k, v) ==
    [x \in (DOMAIN d) \cup {k} |-> IF x \in DOMAIN d THEN d[x] ELSE v]

\* d[k] = v on a dict keyed by integers
Put(d, k, v) == [x \in (DOMAIN d) \cup {k} |-> IF x = k THEN v ELSE d[x]]

\* ------------------------------------------------------------- errors
\* An exception, or the normal return of a call.
Raise(kind, status) == [kind |-> kind, status |-> status]
Return == [kind |-> "return", status |-> 0]
NoOutcome == [kind |-> "none", status |-> 0]

TechError(status) == Raise("TechError", status)
\* TechLoginError is a subclass of TechError.
TechLoginError(status) == Raise("TechLoginError", status)

\* ------------------------------------------------- tech.py: the cache
EmptyModule == [last_update |-> None, zones |-> EmptyDict, tiles |-> EmptyDict]

\* Mutant of _initialize_module_data: the record is created anew each time.
InitializeAnew(mods, udid) ==
    [u \in (DOMAIN mods) \cup {udid} |-> IF u = udid THEN EmptyModule ELSE mods[u]]

\* _initialize_module_data(module_udid) (lines 265-266).
_initialize_module_data(mods, udid) ==
    IF udid \notin DOMAIN mods
    THEN [u \in (DOMAIN mods) \cup {udid} |-> IF u = udid THEN EmptyModule ELSE mods[u]]
    ELSE mods

ZoneValid(zone) ==
    /\ ~IsNone(zone)
    /\ "zone" \in DOMAIN zone
    /\ ~IsNone(zone.zone)
    /\ "visibility" \in DOMAIN zone.zone
    /\ ("zoneState" \in DOMAIN zone.zone => zone.zone.zoneState # "zoneUnregistered")

\* Mutant of _filter_zones: the zone-state is not looked at.
ZoneValidAnyState(zone) ==
    /\ ~IsNone(zone)
    /\ "zone" \in DOMAIN zone
    /\ ~IsNone(zone.zone)
    /\ "visibility" \in DOMAIN zone.zone
FilterZonesAnyState(zones) == SelectSeq(zones, ZoneValidAnyState)

_filter_zones(zones) == SelectSeq(zones, ZoneValid)

\* tile.get("visibility", False) raises AttributeError on a None tile.
TileVisible(tile) == "visibility" \in DOMAIN tile /\ tile.visibility

\* Mutant of _filter_tiles: a tile needs the visibility key, not a true flag.
TileHasVisibility(tile) == "visibility" \in DOMAIN tile
FilterTilesHavingFlag(tiles) ==
    IF \E i \in 1..Len(tiles) : IsNone(tiles[i])
    THEN [exc |-> "AttributeError", list |-> <<>>]
    ELSE [exc |-> "none", list |-> SelectSeq(tiles, TileHasVisibility)]

_filter_tiles(tiles) ==
    IF \E i \in 1..Len(tiles) : IsNone(tiles[i])
    THEN [exc |-> "AttributeError", list |-> <<>>]
    ELSE [exc |-> "none", list |-> SelectSeq(tiles, TileVisible)]

\* result.get("zones", {}).get("elements", [])
ExtractZones(result) ==
    IF "zones" \notin DOMAIN result THEN [exc |-> "none", zones |-> List(<<>>)]
    ELSE IF IsNone(result.zones) THEN [exc |-> "AttributeError", zones |-> None]
    ELSE IF "elements" \notin DOMAIN result.zones THEN [exc |-> "none", zones |-> List(<<>>)]
    ELSE [exc |-> "none", zones |-> result.zones.elements]

\* result.get("tiles", [])
ExtractTiles(result) ==
    IF "tiles" \notin DOMAIN result THEN List(<<>>) ELSE result.tiles

\* Mutant of StoreZones: one zone dict is shared by all the module records.
RECURSIVE StoreZonesShared(_, _, _)
StoreZonesShared(mods, udid, filtered) ==
    IF filtered = <<>> THEN [exc |-> "none", mods |-> mods]
    ELSE LET zone == Head(filtered) IN
         IF "id" \notin DOMAIN zone.zone \/ udid \notin DOMAIN mods
         THEN [exc |-> "KeyError", mods |-> mods]
         ELSE StoreZonesShared([m \in DOMAIN mods |->
                                   [mods[m] EXCEPT !.zones = Put(@, zone.zone.id, zone)]],
                               udid, Tail(filtered))

\* for zone in filtered_zones: self.modules[udid]["zones"][zone["zone"]["id"]] = zone
\* The loop stops at the first KeyError; what it stored before stays stored.
RECURSIVE StoreZones(_, _, _)
StoreZones(mods, udid, filtered) ==
    IF filtered = <<>> THEN [exc |-> "none", mods |-> mods]
    ELSE LET zone == Head(filtered) IN
         IF "id" \notin DOMAIN zone.zone \/ udid \notin DOMAIN mods
         THEN [exc |-> "KeyError", mods |-> mods]
         ELSE StoreZones([mods EXCEPT ![udid].zones = Put(@, zone.zone.id, zone)],
                         udid, Tail(filtered))

\* for tile in filtered_tiles: self.modules[udid]["tiles"][tile["id"]] = tile
RECURSIVE StoreTiles(_, _, _)
StoreTiles(mods, udid, filtered) ==
    IF filtered = <<>> THEN [exc |-> "none", mods |-> mods]
    ELSE LET tile == Head(filtered) IN
         IF "id" \notin DOMAIN tile \/ udid \notin DOMAIN mods
         THEN [exc |-> "KeyError", mods |-> mods]
         ELSE StoreTiles([mods EXCEPT ![udid].tiles = Put(@, tile.id, tile)],
                         udid, Tail(filtered))

\* Mutant of MergeZones: the unguarded refresh stamps the module too.
MergeZonesStamping(mods, udid, result) ==
    LET ex == ExtractZones(result)
        st == StoreZones(mods, udid, _filter_zones(ex.zones.list))
        m == IF ex.exc # "none" THEN [exc |-> ex.exc, mods |-> mods]
             ELSE IF Falsy(ex.zones)
             THEN [exc |-> IF udid \in DOMAIN mods THEN "none" ELSE "KeyError",
                   mods |-> mods]
             ELSE IF st.exc # "none" THEN st
             ELSE [exc |-> IF udid \in DOMAIN mods THEN "none" ELSE "KeyError",
                   mods |-> st.mods] IN
    IF m.exc # "none" THEN m
    ELSE [exc |-> "none", mods |-> [m.mods EXCEPT ![udid].last_update = [time |-> 0]]]

\* get_module_zones after its fetch returned `result` (lines 317-332).
MergeZones(mods, udid, result) ==
    LET ex == ExtractZones(result) IN
    IF ex.exc # "none" THEN [exc |-> ex.exc, mods |-> mods]
    ELSE IF Falsy(ex.zones)
    THEN [exc |-> IF udid \in DOMAIN mods THEN "none" ELSE "KeyError", mods |-> mods]
    ELSE LET st == StoreZones(mods, udid, _filter_zones(ex.zones.list)) IN
         IF st.exc # "none" THEN st
         ELSE [exc |-> IF udid \in DOMAIN mods THEN "none" ELSE "KeyError", mods |-> st.mods]

\* get_module_tiles after its fetch returned `result` (lines 349-364).
MergeTiles(mods, udid, result) ==
    LET tiles == ExtractTiles(result) IN
    IF Falsy(tiles)
    THEN [exc |-> IF udid \in DOMAIN mods THEN "none" ELSE "KeyError", mods |-> mods]
    ELSE LET f == _filter_tiles(tiles.list) IN
         IF f.exc # "none" THEN [exc |-> f.exc, mods |-> mods]
         ELSE LET st == StoreTiles(mods, udid, f.list) IN
              IF st.exc # "none" THEN st
              ELSE [exc |-> IF udid \in DOMAIN mods THEN "none" ELSE "KeyError",
                    mods |-> st.mods]

\* module_data after its fetch returned `result` (lines 388-417): zones, then
\* tiles, then the timestamp; an exception leaves what was stored before it.
MergeModule(mods, udid, result, stamp) ==
    LET ex == ExtractZones(result) IN
    IF ex.exc # "none" THEN [exc |-> ex.exc, mods |-> mods]
    ELSE LET zs == IF Falsy(ex.zones) THEN [exc |-> "none", mods |-> mods]
                   ELSE StoreZones(mods, udid, _filter_zones(ex.zones.list)) IN
         IF zs.exc # "none" THEN zs
         ELSE LET tiles == ExtractTiles(result)
                  f == IF Falsy(tiles) THEN [exc |-> "none", list |-> <<>>]
                       ELSE _filter_tiles(tiles.list) IN
              IF f.exc # "none" THEN [exc |-> f.exc, mods |-> zs.mods]
              ELSE LET ts == StoreTiles(zs.mods, udid, f.list) IN
                   IF ts.exc # "none" THEN ts
                   ELSE IF udid \notin DOMAIN ts.mods
                   THEN [exc |-> "KeyError", mods |-> ts.mods]
                   ELSE [exc |-> "none",
                         mods |-> [ts.mods EXCEPT ![udid].last_update = [time |-> stamp]]]

\* ------------------------------------------------------ the HTTP layer
\* What the server (or the network) does with one request.
\*   ok               status 200 and a JSON body (field json)
\*   status           a status other than 200 (field status)
\*   JSONDecodeError  status 200 and a body that is not JSON
\*   ClientError      aiohttp.ClientError (connection failure)
\*   Timeout          the per-request timeout expired (TimeoutError)
Ok(json) == [kind |-> "ok", status |-> 200, json |-> json]
Failure(kind, status) == [kind |-> kind, status |-> status, json |-> None]
Failures ==
    {Failure("status", 401), Failure("status", 500), Failure("JSONDecodeError", 200),
     Failure("ClientError", 0), Failure("Timeout", 0)}

\* _make_request: the exception it raises for a response, or Return.
_make_request(resp) ==
    CASE resp.kind = "ok" -> Return
      [] resp.kind = "status" -> TechError(resp.status)
      [] resp.kind = "JSONDecodeError" -> TechError(500)
      [] resp.kind = "ClientError" -> TechError(500)
      [] resp.kind = "Timeout" -> Raise("TimeoutError", 0)

\* Mutant of handle_api_errors: every other exception becomes a TechError too.
HandleEveryError(exc) ==
    CASE exc.kind = "ClientError" -> TechError(500)
      [] exc.kind = "TimeoutError" -> TechError(408)
      [] exc.kind \in {"return", "TechError", "TechLoginError"} -> exc
      [] OTHER -> TechError(500)

\* The except clauses of the handle_api_errors wrapper; an exception they do
\* not name, and a normal return, pass through.
handle_api_errors(exc) ==
    CASE exc.kind = "ClientError" -> TechError(500)
      [] exc.kind = "TimeoutError" -> TechError(408)
      [] OTHER -> exc

\* The pre-check of the handle_api_errors wrapper (lines 23-24).
NotAuthenticatedError == TechError(401)

\* coordinator.py: the except clauses of _async_update_data.
CoordinatorError(exc) ==
    CASE exc.kind = "TechLoginError" -> Raise("ConfigEntryAuthFailed", exc.status)
      [] exc.kind = "TechError" -> Raise("UpdateFailed", exc.status)
      [] OTHER -> exc

\* ------------------------------------------------ climate.py: the entity
DEFAULT_MIN_TEMP == 5
DEFAULT_MAX_TEMP == 35

\* The fields of a TechThermostat as __init__ sets them (line 98), before its
\* update_properties(device): no target temperature.  `calls`
\* and `refreshes` count the set_const_temp calls and the refresh requests of
\* the running or last async_set_temperature.  Temperatures are in hundredths
\* of a degree.
NewEntity == [target |-> None, calls |-> 0, refreshes |-> 0]
SetTempOps == {"set_const_temp", "async_set_temperature"}

\* TechCoordinator.data of the coordinator of module m1.  _async_update_data
\* returns what module_data returns (coordinator.py line 49), the dict
\* self.modules[udid] itself (tech.py line 417), so that the data is the
\* module's record as it is now, Live, until clear_module_cache puts a new
\* dict, or none, in its place (tech.py lines 563-570): from then on the
\* coordinator holds the record as it was, Held(d).  None: no refresh yet.
Live == [live |-> TRUE]
Held(d) == [live |-> FALSE, data |-> d]
DataOf(c, mods) == IF c.live THEN mods["m1"] ELSE c.data

\* The coordinator after clear_module_cache(udid) on the modules mods.
Detached(c, mods, udid) ==
    IF ~IsNone(c) /\ c.live /\ (udid \in {"", NoneStr, "m1"}) THEN Held(mods["m1"]) ELSE c

\* The coordinator after _async_update_data of task t ended with `out`.
Refreshed(c, o, udid, out) ==
    IF o = "_async_update_data" /\ udid = "m1" /\ out.kind = "return" THEN Live ELSE c

\* Mutant of InRange: the bounds themselves are rejected.
InRangeExclusive(temperature) ==
    100 * DEFAULT_MIN_TEMP < temperature /\ temperature < 100 * DEFAULT_MAX_TEMP

\* self.min_temp <= temperature <= self.max_temp (lines 247-254, 266).
InRange(temperature) ==
    100 * DEFAULT_MIN_TEMP <= temperature /\ temperature <= 100 * DEFAULT_MAX_TEMP

\* ---------------------------------------------------------------- state
VARIABLES
    authenticated,  \* Tech.authenticated
    user_id,        \* Tech.user_id
    token,          \* Tech.token
    headers,        \* Tech.headers
    modules,        \* Tech.modules
    update_lock,    \* Tech.update_lock: [locked, waiters]
    clock,          \* time.time()
    pc,             \* per task: where its coroutine is suspended
    op,             \* per task: the operation it runs
    arg,            \* per task: the arguments of the operation
    now,            \* per task: the local `now` of module_data
    inflight,       \* per task: the request it awaits, or None
    last,           \* per task: what its last finished call did
    server,         \* the module payload the server holds, where it is fixed
    entity,         \* the climate entity of zone 1 of module m1
    coordinator     \* TechCoordinator.data of the coordinator of module m1

vars == <<authenticated, user_id, token, headers, modules, update_lock, clock,
          pc, op, arg, now, inflight, last, server, entity, coordinator>>

client == <<authenticated, user_id, token, headers>>

DEFAULT_HEADERS == [Accept |-> "application/json"]
Bearer(k) == [Accept |-> "application/json", Authorization |-> <<"Bearer", k>>]

\* The arguments of a call; target_temp is in hundredths of a degree.
Args(udid, id, target_temp, on, language) ==
    [udid |-> udid, id |-> id, target_temp |-> target_temp, on |-> on,
     language |-> language]
ModuleArgs(udid) == Args(udid, 0, 0, FALSE, "")
NoArgs == ModuleArgs("")

GuardedOps == {"module_data", "_async_update_data"}
ZoneOps == {"get_module_zones", "get_zone", "set_const_temp"}
TileOps == {"get_module_tiles", "get_tile"}
RequestOps == {"get", "post", "list_modules", "get_module_data", "get_translations",
               "set_zone"}

\* What a finished call leaves for the properties to read, until the task's
\* next call begins: the operation, its outcome, and a digest of the response
\* it processed.
\*   present     the module had a record when the response arrived
\*   wellformed  WellFormed(payload)
\*   zoneIds     the ids of the zone records of the payload; tileIds likewise
\*   dropped     the payload has a zone record that is not admissible, or a
\*               tile record that is not visible
\*   sent        the number of requests the call issued
\*   entry       the zone or tile a lookup returned, or None
Digest(present, wf, zids, tids, dropped) ==
    [present |-> present, wellformed |-> wf, zoneIds |-> zids, tileIds |-> tids,
     dropped |-> dropped]
NoDigest == Digest(FALSE, FALSE, {}, {}, FALSE)
Last(o, a, out, value, resp, digest, sent) ==
    [op |-> o, udid |-> a.udid, kind |-> out.kind, status |-> out.status,
     value |-> value, resp |-> resp.kind, rstatus |-> resp.status,
     present |-> digest.present, wellformed |-> digest.wellformed,
     zoneIds |-> digest.zoneIds, tileIds |-> digest.tileIds,
     dropped |-> digest.dropped, sent |-> sent, entry |-> None]
NoResp == Failure("none", 0)
NoLast == Last("none", NoArgs, NoOutcome, "", NoResp, NoDigest, 0)

\* Tech.__init__ (lines 69-83), and every task idle.
InitTasks ==
    /\ pc = [t \in Tasks |-> "idle"]
    /\ op = [t \in Tasks |-> "none"]
    /\ arg = [t \in Tasks |-> NoArgs]
    /\ now = [t \in Tasks |-> 0]
    /\ inflight = [t \in Tasks |-> None]
    /\ last = [t \in Tasks |-> NoLast]

InitClient(u, k) ==
    /\ IF u \notin {NoneStr, ""} /\ k \notin {NoneStr, ""}
       THEN /\ user_id = u
            /\ token = k
            /\ headers = Bearer(k)
            /\ authenticated = TRUE
       ELSE /\ user_id = NoneStr
            /\ token = NoneStr
            /\ headers = DEFAULT_HEADERS
            /\ authenticated = FALSE
    /\ modules = EmptyDict
    /\ update_lock = [locked |-> FALSE, waiters |-> <<>>]
    /\ clock = 0
    /\ server = None
    /\ entity = None
    /\ coordinator = None

Init ==
    /\ \E u \in Users \cup {NoneStr, ""}, k \in Tokens \cup {NoneStr, ""} : InitClient(u, k)
    /\ InitTasks

\* --------------------------------------------------------- the actions
\* A request as _make_request sends it (lines 107-117); `issued` is the time
\* at which it is sent.
Request(method, path, data) ==
    [method |-> method, path |-> path, data |-> data, headers |-> headers,
     issued |-> clock]
ModulePath(udid) == <<"users", user_id, "modules", udid>>

\* An exception as the caller of operation o sees it.
Seen(o, exc) == IF o = "_async_update_data" THEN CoordinatorError(exc) ELSE exc

\* The digest of a module payload that the properties read.
ZoneIdsOf(result) ==
    LET ex == ExtractZones(result) IN
    IF ex.exc # "none" \/ IsNone(ex.zones) THEN {}
    ELSE {ex.zones.list[i].zone.id : i \in
            {j \in 1..Len(ex.zones.list) :
                LET z == ex.zones.list[j] IN
                /\ ~IsNone(z) /\ "zone" \in DOMAIN z /\ ~IsNone(z.zone)
                /\ "id" \in DOMAIN z.zone}}
TileIdsOf(result) ==
    LET tiles == ExtractTiles(result) IN
    IF IsNone(tiles) THEN {}
    ELSE {tiles.list[i].id : i \in
            {j \in 1..Len(tiles.list) :
                ~IsNone(tiles.list[j]) /\ "id" \in DOMAIN tiles.list[j]}}
\* No anomaly other than zones the zone filter drops and tiles the tile filter
\* drops: the zones field is not null, no tile is null, and every entry that
\* passes its filter has an id.
WellFormed(result) ==
    LET ex == ExtractZones(result)
        tiles == ExtractTiles(result) IN
    /\ ex.exc = "none"
    /\ ~IsNone(ex.zones) =>
         \A i \in 1..Len(ex.zones.list) :
            ZoneValid(ex.zones.list[i]) => "id" \in DOMAIN ex.zones.list[i].zone
    /\ ~IsNone(tiles) =>
         \A i \in 1..Len(tiles.list) :
            /\ ~IsNone(tiles.list[i])
            /\ TileVisible(tiles.list[i]) => "id" \in DOMAIN tiles.list[i]

\* The conditions the data model puts on a cached zone and on a cached tile,
\* written out on the record itself.
Admissible(z) ==
    /\ z # None
    /\ "zone" \in DOMAIN z
    /\ z.zone # None
    /\ "visibility" \in DOMAIN z.zone
    /\ ~("zoneState" \in DOMAIN z.zone /\ z.zone.zoneState = "zoneUnregistered")
Visible(tl) == tl # None /\ "visibility" \in DOMAIN tl /\ tl.visibility = TRUE
HasDropped(result) ==
    LET ex == ExtractZones(result)
        tiles == ExtractTiles(result) IN
    \/ /\ ex.exc = "none"
       /\ ~IsNone(ex.zones)
       /\ \E i \in 1..Len(ex.zones.list) :
             ex.zones.list[i] # None /\ ~Admissible(ex.zones.list[i])
    \/ /\ ~IsNone(tiles)
       /\ \E i \in 1..Len(tiles.list) :
             tiles.list[i] # None /\ ~Visible(tiles.list[i])

\* The number of requests the running call of task t has issued so far.
Sent(t) ==
    IF pc[t] \in {"idle", "wait_lock", "cancelled_wait", "cancelled_woken"} THEN 0
    ELSE last[t].sent

\* The call of task t ends: it raises `out`, or (out = Return) returns, `entry`
\* being the zone or tile a lookup returns.
End(t, o, a, out, entry, resp) ==
    /\ pc' = [pc EXCEPT ![t] = "idle"]
    /\ op' = [op EXCEPT ![t] = o]
    /\ arg' = [arg EXCEPT ![t] = a]
    /\ inflight' = [inflight EXCEPT ![t] = None]
    /\ last' = [last EXCEPT ![t] =
            [(IF resp.kind = "ok" /\ pc[t] = "fetch"
              THEN Last(o, a, Seen(o, out), "", resp,
                        Digest(a.udid \in DOMAIN modules, WellFormed(resp.json),
                               ZoneIdsOf(resp.json), TileIdsOf(resp.json),
                               HasDropped(resp.json)),
                        Sent(t))
              ELSE Last(o, a, Seen(o, out), "", resp, NoDigest, Sent(t)))
             EXCEPT !.entry = entry]]

Finish(t, o, a, out, resp) == End(t, o, a, out, None, resp)

\* Mutant of Await: the request is issued twice.
AwaitTwice(t, o, a, where, req) ==
    /\ pc' = [pc EXCEPT ![t] = where]
    /\ op' = [op EXCEPT ![t] = o]
    /\ arg' = [arg EXCEPT ![t] = a]
    /\ inflight' = [inflight EXCEPT ![t] = req]
    /\ last' = [last EXCEPT ![t] = [NoLast EXCEPT !.sent = Sent(t) + 2]]

\* The call of task t suspends on a request.
Await(t, o, a, where, req) ==
    /\ pc' = [pc EXCEPT ![t] = where]
    /\ op' = [op EXCEPT ![t] = o]
    /\ arg' = [arg EXCEPT ![t] = a]
    /\ inflight' = [inflight EXCEPT ![t] = req]
    /\ last' = [last EXCEPT ![t] = [NoLast EXCEPT !.sent = Sent(t) + 1]]

Exc(name) == IF name = "none" THEN Return ELSE Raise(name, 0)

\* Mutant of LockFree: one lock per module instead of one per client.
LockFreePerModule(udid) ==
    ~\E t \in Tasks :
        pc[t] \in {"fetch", "wait_lock"} /\ op[t] \in GuardedOps /\ arg[t].udid = udid

\* asyncio.Lock.acquire takes a free lock at once when nobody waits for it but
\* waiters whose future is cancelled (they are in the queue until they run);
\* the lock is the client's, whatever the module.
LockFree(udid) ==
    /\ ~update_lock.locked
    /\ \A i \in 1..Len(update_lock.waiters) : pc[update_lock.waiters[i]] = "cancelled_wait"

\* module_data once it holds the lock, up to its fetch (lines 381-386): `now`,
\* the module record, then get_module_data and get with their pre-checks.
EnterRefresh(t, o, udid, waiters) ==
    /\ now' = [now EXCEPT ![t] = clock]
    /\ modules' = _initialize_module_data(modules, udid)
    /\ IF authenticated
       THEN /\ update_lock' = [locked |-> TRUE, waiters |-> waiters]
            /\ Await(t, o, ModuleArgs(udid), "fetch", Request("GET", ModulePath(udid), None))
       ELSE /\ update_lock' = [locked |-> FALSE, waiters |-> waiters]
            /\ Finish(t, o, ModuleArgs(udid), NotAuthenticatedError, NoResp)
    /\ UNCHANGED <<client, clock, server, entity, coordinator>>

\* module_data(udid), or the coordinator's _async_update_data around it.
module_data(t, o, udid) ==
    /\ pc[t] = "idle"
    /\ IF ~authenticated
       THEN /\ Finish(t, o, ModuleArgs(udid), NotAuthenticatedError, NoResp)
            /\ UNCHANGED <<client, modules, update_lock, clock, now, server, entity, coordinator>>
       ELSE IF LockFree(udid)
       THEN EnterRefresh(t, o, udid, update_lock.waiters)
       ELSE /\ update_lock' = [update_lock EXCEPT !.waiters = Append(@, t)]
            /\ pc' = [pc EXCEPT ![t] = "wait_lock"]
            /\ op' = [op EXCEPT ![t] = o]
            /\ arg' = [arg EXCEPT ![t] = ModuleArgs(udid)]
            /\ last' = [last EXCEPT ![t] = NoLast]
            /\ UNCHANGED <<client, modules, clock, now, inflight, server, entity, coordinator>>

\* The lock was released and task t is the first waiter.
module_data_acquired(t) ==
    /\ pc[t] = "wait_lock"
    /\ ~update_lock.locked
    /\ update_lock.waiters # <<>>
    /\ Head(update_lock.waiters) = t
    /\ EnterRefresh(t, op[t], arg[t].udid, Tail(update_lock.waiters))

\* The fetch of module_data ends (lines 386-417); the lock is released.
module_data_response(t, resp) ==
    /\ pc[t] = "fetch"
    /\ op[t] \in GuardedOps
    /\ LET exc == handle_api_errors(_make_request(resp))
           m == MergeModule(modules, arg[t].udid, resp.json, now[t]) IN
       IF exc.kind # "return"
       THEN /\ Finish(t, op[t], arg[t], exc, resp)
            /\ UNCHANGED <<modules, coordinator>>
       ELSE /\ Finish(t, op[t], arg[t], handle_api_errors(Exc(m.exc)), resp)
            /\ modules' = m.mods
            /\ coordinator' = Refreshed(coordinator, op[t], arg[t].udid,
                                        handle_api_errors(Exc(m.exc)))
    /\ update_lock' = [update_lock EXCEPT !.locked = FALSE]
    /\ UNCHANGED <<client, clock, now, server, entity>>

\* asyncio.timeout(API_TIMEOUT) of _async_update_data expires (coordinator.py
\* line 47): the timer's callback cancels the task, which stays where it is
\* suspended until the event loop runs it.  In its fetch, the request's future
\* is cancelled and the lock stays held.  Waiting for the lock, the waiter's
\* future is cancelled and stays in the queue; a waiter that release() has
\* woken already (the lock is free and it is the first) keeps its future's
\* result, so that acquire() does not count it as cancelled.
cancel(t) ==
    /\ op[t] = "_async_update_data"
    /\ pc[t] \in {"wait_lock", "fetch"}
    /\ pc' = [pc EXCEPT ![t] =
                 IF pc[t] = "fetch" THEN "cancelled_fetch"
                 ELSE IF ~update_lock.locked /\ Head(update_lock.waiters) = t
                      THEN "cancelled_woken"
                      ELSE "cancelled_wait"]
    /\ UNCHANGED <<client, modules, update_lock, clock, op, arg, now, inflight, last,
                   server, entity, coordinator>>

\* Mutant of timeout_raises: the lock stays held when the refresh is cancelled
\* in its fetch.
timeout_raises_holding(t) ==
    /\ pc[t] \in {"cancelled_wait", "cancelled_woken", "cancelled_fetch"}
    /\ update_lock' = [update_lock EXCEPT
                          !.waiters = SelectSeq(@, LAMBDA w : w # t)]
    /\ Finish(t, op[t], arg[t], Raise("TimeoutError", 0), NoResp)
    /\ UNCHANGED <<client, modules, clock, now, server, entity, coordinator>>

\* The cancelled task runs: CancelledError is thrown into module_data where
\* it is suspended.  In its fetch, the error passes _make_request and the
\* handle_api_errors wrappers and leaves `async with self.update_lock`
\* (tech.py line 380), which releases the lock.  Waiting for the lock, the
\* task leaves the queue (Lock.acquire).  asyncio.timeout turns the error into
\* TimeoutError (coordinator.py lines 46-50), which neither except clause
\* (51-54) catches.
timeout_raises(t) ==
    /\ pc[t] \in {"cancelled_wait", "cancelled_woken", "cancelled_fetch"}
    /\ update_lock' = IF pc[t] = "cancelled_fetch"
                      THEN [update_lock EXCEPT !.locked = FALSE]
                      ELSE [update_lock EXCEPT
                               !.waiters = SelectSeq(@, LAMBDA w : w # t)]
    /\ Finish(t, op[t], arg[t], Raise("TimeoutError", 0), NoResp)
    /\ UNCHANGED <<client, modules, clock, now, server, entity, coordinator>>

\* Mutant of Lookup: an absent id gives None, as dict.get would.
LookupOrNone(d, id) ==
    IF id \in DOMAIN d THEN [exc |-> "none", entry |-> d[id]]
    ELSE [exc |-> "none", entry |-> None]

\* The lookup of get_zone (lines 435-438), get_tile (456-459) and
\* set_const_temp (483-486) in the cached zones or tiles d of the module.
Lookup(d, id) ==
    IF id \in DOMAIN d THEN [exc |-> "none", entry |-> d[id]]
    ELSE [exc |-> "KeyError", entry |-> None]

\* get_module_zones(udid) (lines 313-316), also as called first by get_zone and
\* by set_const_temp, which the entity's async_set_temperature calls in its
\* turn (climate.py lines 279-281).
get_module_zones(t, o, a) ==
    /\ pc[t] = "idle"
    /\ o \in ZoneOps \cup SetTempOps
    /\ IF ~authenticated
       THEN /\ Finish(t, o, a, NotAuthenticatedError, NoResp)
            /\ UNCHANGED modules
       ELSE /\ modules' = _initialize_module_data(modules, a.udid)
            /\ Await(t, o, a, "fetch", Request("GET", ModulePath(a.udid), None))
    /\ entity' = IF o = "async_set_temperature"
                 THEN [entity EXCEPT !.calls = 1, !.refreshes = 0]
                 ELSE entity
    /\ UNCHANGED <<client, update_lock, clock, now, server, coordinator>>

\* Mutant of ConstTempData: the temperature is rounded, not truncated.
ConstTempDataRounded(zone_data, zone_id, target_temp) ==
    [mode |-> [id |-> zone_data.mode.id, parentId |-> zone_id, mode |-> "constantTemp",
               constTempTime |-> 60,
               setTemperature |-> IF target_temp >= 0 THEN (target_temp + 5) \div 10
                                  ELSE -((5 - target_temp) \div 10),
               scheduleIndex |-> 0]]

\* The body posted by set_const_temp (lines 489-498).
ConstTempData(zone_data, zone_id, target_temp) ==
    [mode |-> [id |-> zone_data.mode.id, parentId |-> zone_id, mode |-> "constantTemp",
               constTempTime |-> 60,
               setTemperature |-> IF target_temp >= 0 THEN target_temp \div 10
                                  ELSE -((-target_temp) \div 10),
               scheduleIndex |-> 0]]
ZonesPath(udid) == <<"users", user_id, "modules", udid, "zones">>

\* The fetch of get_module_zones ends (lines 316-332), and the caller goes on:
\* get_zone (lines 435-438), set_const_temp (lines 483-501).
get_module_zones_response(t, resp) ==
    /\ pc[t] = "fetch"
    /\ op[t] \in ZoneOps \cup SetTempOps
    /\ LET exc == handle_api_errors(_make_request(resp))
           m == MergeZones(modules, arg[t].udid, resp.json)
           id == arg[t].id
           found == Lookup(m.mods[arg[t].udid].zones, id) IN
       IF exc.kind # "return"
       THEN /\ Finish(t, op[t], arg[t], exc, resp)
            /\ UNCHANGED modules
       ELSE /\ modules' = m.mods
            /\ IF m.exc # "none" \/ op[t] = "get_module_zones"
               THEN Finish(t, op[t], arg[t], handle_api_errors(Exc(m.exc)), resp)
               ELSE IF found.exc # "none"
               THEN Finish(t, op[t], arg[t],
                           IF op[t] \in SetTempOps
                           THEN handle_api_errors(Exc(found.exc))
                           ELSE Exc(found.exc), resp)
               ELSE IF op[t] = "get_zone"
               THEN End(t, op[t], arg[t], Return, found.entry, resp)
               ELSE IF "mode" \notin DOMAIN found.entry
               THEN Finish(t, op[t], arg[t], handle_api_errors(Raise("KeyError", 0)), resp)
               ELSE IF ~authenticated
               THEN Finish(t, op[t], arg[t], NotAuthenticatedError, resp)
               ELSE Await(t, op[t], arg[t], "post",
                          Request("POST", ZonesPath(arg[t].udid),
                                  ConstTempData(found.entry, id, arg[t].target_temp)))
    /\ UNCHANGED <<client, update_lock, clock, now, server, entity, coordinator>>

\* get_module_tiles(udid) (lines 345-348), also as called first by get_tile.
get_module_tiles(t, o, a) ==
    /\ pc[t] = "idle"
    /\ o \in TileOps
    /\ IF ~authenticated
       THEN /\ Finish(t, o, a, NotAuthenticatedError, NoResp)
            /\ UNCHANGED modules
       ELSE /\ modules' = _initialize_module_data(modules, a.udid)
            /\ Await(t, o, a, "fetch", Request("GET", ModulePath(a.udid), None))
    /\ UNCHANGED <<client, update_lock, clock, now, server, entity, coordinator>>

\* The fetch of get_module_tiles ends (lines 348-364); get_tile goes on
\* (lines 456-459).
get_module_tiles_response(t, resp) ==
    /\ pc[t] = "fetch"
    /\ op[t] \in TileOps
    /\ LET exc == handle_api_errors(_make_request(resp))
           m == MergeTiles(modules, arg[t].udid, resp.json)
           found == Lookup(m.mods[arg[t].udid].tiles, arg[t].id) IN
       IF exc.kind # "return"
       THEN /\ Finish(t, op[t], arg[t], exc, resp)
            /\ UNCHANGED modules
       ELSE /\ modules' = m.mods
            /\ IF m.exc # "none" \/ op[t] = "get_module_tiles"
               THEN Finish(t, op[t], arg[t], handle_api_errors(Exc(m.exc)), resp)
               ELSE IF found.exc # "none"
               THEN Finish(t, op[t], arg[t], Exc(found.exc), resp)
               ELSE End(t, op[t], arg[t], Return, found.entry, resp)
    /\ UNCHANGED <<client, update_lock, clock, now, server, entity, coordinator>>

\* const.py is not part of the sources at hand: the supported languages.
TECH_SUPPORTED_LANGUAGES == {"en", "pl"}

\* Mutant of RequestOf: set_zone posts "zoneOn" whatever the flag.
RequestOfZoneOn(o, a) ==
    CASE o = "get" -> Request("GET", <<"path">>, None)
      [] o = "post" -> Request("POST", <<"path">>, [data |-> 1])
      [] o = "list_modules" -> Request("GET", <<"users", user_id, "modules">>, None)
      [] o = "get_module_data" -> Request("GET", ModulePath(a.udid), None)
      [] o = "get_translations" ->
            Request("GET",
                    <<"i18n", IF a.language \notin TECH_SUPPORTED_LANGUAGES THEN "en"
                              ELSE a.language>>, None)
      [] o = "set_zone" ->
            Request("POST", ZonesPath(a.udid),
                    [zone |-> [id |-> a.id, zoneState |-> "zoneOn"]])

\* Mutant of RequestOf: get_translations asks for the language as given.
RequestOfAnyLanguage(o, a) ==
    CASE o = "get" -> Request("GET", <<"path">>, None)
      [] o = "post" -> Request("POST", <<"path">>, [data |-> 1])
      [] o = "list_modules" -> Request("GET", <<"users", user_id, "modules">>, None)
      [] o = "get_module_data" -> Request("GET", ModulePath(a.udid), None)
      [] o = "get_translations" -> Request("GET", <<"i18n", a.language>>, None)
      [] o = "set_zone" ->
            Request("POST", ZonesPath(a.udid),
                    [zone |-> [id |-> a.id,
                               zoneState |-> IF a.on THEN "zoneOn" ELSE "zoneOff"]])

\* The request of an operation that sends one request and returns its result:
\* get (156), post (170), list_modules (217-218), get_module_data (232-233),
\* get_translations (250-256), set_zone (521-528).
RequestOf(o, a) ==
    CASE o = "get" -> Request("GET", <<"path">>, None)
      [] o = "post" -> Request("POST", <<"path">>, [data |-> 1])
      [] o = "list_modules" -> Request("GET", <<"users", user_id, "modules">>, None)
      [] o = "get_module_data" -> Request("GET", ModulePath(a.udid), None)
      [] o = "get_translations" ->
            Request("GET",
                    <<"i18n", IF a.language \notin TECH_SUPPORTED_LANGUAGES THEN "en"
                              ELSE a.language>>, None)
      [] o = "set_zone" ->
            Request("POST", ZonesPath(a.udid),
                    [zone |-> [id |-> a.id,
                               zoneState |-> IF a.on THEN "zoneOn" ELSE "zoneOff"]])

\* An operation of RequestOps is called.
request(t, o, a) ==
    /\ pc[t] = "idle"
    /\ o \in RequestOps
    /\ IF ~authenticated
       THEN Finish(t, o, a, NotAuthenticatedError, NoResp)
       ELSE Await(t, o, a, IF o \in {"post", "set_zone"} THEN "post" ELSE "get",
                  RequestOf(o, a))
    /\ UNCHANGED <<client, modules, update_lock, clock, now, server, entity, coordinator>>

\* async_set_temperature after set_const_temp ended with `out` (climate.py
\* lines 282-283): when it returned, the target is stored and a refresh of
\* the coordinator is requested; when it raised, the exception leaves the
\* handler.
SetTemperatureDone(e, o, a, out) ==
    IF o = "async_set_temperature" /\ out.kind = "return"
    THEN [e EXCEPT !.target = [temp |-> a.target_temp], !.refreshes = 1]
    ELSE e

\* The request of task t ended and its operation ends with `out`; an
\* async_set_temperature whose set_const_temp returned goes on to await
\* coordinator.async_request_refresh() (climate.py line 283), which is the
\* platform's: it suspends the handler (it runs or awaits a refresh) or
\* returns at once (the refresh is scheduled for later), and the handler
\* returns.
RequestEnds(t, out, resp, suspends) ==
    IF op[t] = "async_set_temperature" /\ out.kind = "return" /\ suspends
    THEN /\ pc' = [pc EXCEPT ![t] = "refresh"]
         /\ inflight' = [inflight EXCEPT ![t] = None]
         /\ UNCHANGED <<op, arg, last>>
    ELSE Finish(t, op[t], arg[t], out, resp)

\* Mutant of request_response: a 401 answer ends the session.
request_response_logout(t, resp) ==
    /\ pc[t] \in {"get", "post"}
    /\ \E suspends \in BOOLEAN :
          RequestEnds(t, handle_api_errors(_make_request(resp)), resp, suspends)
    /\ authenticated' = (authenticated /\ resp.status # 401)
    /\ entity' = SetTemperatureDone(entity, op[t], arg[t], _make_request(resp))
    /\ UNCHANGED <<user_id, token, headers, modules, update_lock, clock, now, server, coordinator>>

\* The request of an operation of RequestOps, or the POST of set_const_temp,
\* ends: the operation returns the result or raises, and an
\* async_set_temperature whose set_const_temp returned goes on.
request_response(t, resp) ==
    /\ pc[t] \in {"get", "post"}
    /\ \E suspends \in BOOLEAN :
          RequestEnds(t, handle_api_errors(_make_request(resp)), resp, suspends)
    /\ entity' = SetTemperatureDone(entity, op[t], arg[t], _make_request(resp))
    /\ UNCHANGED <<client, modules, update_lock, clock, now, server, coordinator>>

\* coordinator.async_request_refresh() returns to async_set_temperature
\* (climate.py line 283), which returns; the last response of the handler is
\* the answer to its POST, whose body it drops.
async_request_refresh_returns(t) ==
    /\ pc[t] = "refresh"
    /\ Finish(t, op[t], arg[t], Return, Ok(None))
    /\ UNCHANGED <<client, modules, update_lock, clock, now, server, entity, coordinator>>

\* authenticate(username, password) up to its request (lines 186-191).
authenticate(t) ==
    /\ pc[t] = "idle"
    /\ Await(t, "authenticate", NoArgs, "auth",
             Request("POST", <<"authentication">>,
                     [username |-> "user", password |-> "secret"]))
    /\ UNCHANGED <<client, modules, update_lock, clock, now, server, entity, coordinator>>

\* The flag authenticate stores for a decoded response (line 193).
AuthenticatedOf(result) ==
    IF "authenticated" \in DOMAIN result THEN result.authenticated ELSE FALSE

\* What authenticate raises when _make_request raised exc (lines 203-205).
AuthenticateError(exc) ==
    IF exc.kind = "TechError" THEN TechLoginError(401) ELSE exc

\* str(result["user_id"]) (line 196): the decimal text of the id.
Str(v) == ToString(v)

\* self.headers["Authorization"] = f"Bearer {self.token}" (line 198).
WithAuthorization(h, k) ==
    [n \in DOMAIN h \cup {"Authorization"} |->
        IF n = "Authorization" THEN <<"Bearer", k>> ELSE h[n]]

\* The request of authenticate ends (lines 191-207).  The flag is stored
\* first (193); result["user_id"] (196) and result["token"] (197) raise
\* KeyError, which is no TechError and leaves authenticate as it is.
authenticate_response(t, resp) ==
    /\ pc[t] = "auth"
    /\ pc' = [pc EXCEPT ![t] = "idle"]
    /\ inflight' = [inflight EXCEPT ![t] = None]
    /\ LET exc == _make_request(resp)
           ok == AuthenticatedOf(resp.json)
           hasId == "user_id" \in DOMAIN resp.json
           hasToken == "token" \in DOMAIN resp.json IN
       IF exc.kind # "return"
       THEN /\ last' = [last EXCEPT ![t] =
                    Last("authenticate", NoArgs, AuthenticateError(exc), "", resp,
                         NoDigest, Sent(t))]
            /\ UNCHANGED <<authenticated, user_id, token, headers>>
       ELSE /\ last' = [last EXCEPT ![t] =
                    Last("authenticate", NoArgs,
                         IF ok /\ ~(hasId /\ hasToken) THEN Raise("KeyError", 0)
                         ELSE Return,
                         IF ~ok THEN "False"
                         ELSE IF hasId /\ hasToken THEN "True" ELSE "",
                         resp, NoDigest, Sent(t))]
            /\ authenticated' = ok
            /\ user_id' = IF ok /\ hasId THEN Str(resp.json.user_id) ELSE user_id
            /\ IF ok /\ hasId /\ hasToken
               THEN /\ token' = resp.json.token
                    /\ headers' = WithAuthorization(headers, resp.json.token)
               ELSE UNCHANGED <<token, headers>>
    /\ UNCHANGED <<modules, update_lock, clock, now, op, arg, server, entity, coordinator>>

\* get_module_last_update(module_udid) (line 552).
get_module_last_update(mods, udid) ==
    IF udid \in DOMAIN mods THEN mods[udid].last_update ELSE None

\* TechThermostat.async_set_temperature(temperature=...) of the entity of
\* zone 1 of module m1 (climate.py lines 261-283), up to its first suspension;
\* kwargs is None when no temperature is given.
async_set_temperature(t, kwargs) ==
    /\ pc[t] = "idle"
    /\ IF IsNone(kwargs) \/ ~InRange(kwargs.temp)
       THEN /\ Finish(t, "async_set_temperature",
                      Args("m1", 1, IF IsNone(kwargs) THEN 0 ELSE kwargs.temp, FALSE, ""),
                      Return, NoResp)
            /\ entity' = [entity EXCEPT !.calls = 0, !.refreshes = 0]
            /\ UNCHANGED <<client, modules, update_lock, clock, now, server, coordinator>>
       ELSE get_module_zones(t, "async_set_temperature",
                             Args("m1", 1, kwargs.temp, FALSE, ""))

\* Mutant of TargetOf: a zone that is during a change overwrites the target
\* as any other.
TargetOfAnyZone(zone_data, target) ==
    IF "setTemperature" \in DOMAIN zone_data
    THEN [temp |-> 10 * zone_data.setTemperature]
    ELSE None

\* self._target_temperature after update_properties (climate.py lines
\* 128-140), `target` being the one before: set_temp / 10 of a zone that is
\* not during a change, kept as it is for one that is, None when the zone has
\* no setTemperature.  dict.get gives None for a null field as for an absent
\* one, so a zone record carries a field only when it is not null.
\* setTemperature is in tenths of a degree.
TargetOf(zone_data, target) ==
    IF "setTemperature" \in DOMAIN zone_data
    THEN IF "duringChange" \in DOMAIN zone_data /\ zone_data.duringChange
         THEN target
         ELSE [temp |-> 10 * zone_data.setTemperature]
    ELSE None

\* TechThermostat.update_properties(device) on the entity e (climate.py lines
\* 120-173): the entity after it and the exception it ends with.  device has
\* no "zone": KeyError, before anything is assigned (line 127).  The flags of
\* the zone are null: AttributeError at flags.get (lines 153-154), after the
\* target was assigned.  The numeric fields are taken to be numbers or null.
update_properties(e, device) ==
    IF "zone" \notin DOMAIN device THEN [entity |-> e, exc |-> "KeyError"]
    ELSE LET zone_data == device.zone
             updated == [e EXCEPT !.target = TargetOf(zone_data, e.target)] IN
         IF "flags" \in DOMAIN zone_data /\ IsNone(zone_data.flags)
         THEN [entity |-> updated, exc |-> "AttributeError"]
         ELSE [entity |-> updated, exc |-> "none"]

\* TechThermostat(device, coordinator, config_entry) (climate.py lines 78-113):
\* the id of the zone (line 87) and the name of the description (lines 89-93)
\* are read, the fields are set (NewEntity) and update_properties(device) runs
\* last; an exception leaves no entity.
TechThermostat(device) ==
    IF "zone" \notin DOMAIN device THEN [entity |-> None, exc |-> "KeyError"]
    ELSE IF IsNone(device.zone) THEN [entity |-> None, exc |-> "TypeError"]
    ELSE IF "id" \notin DOMAIN device.zone THEN [entity |-> None, exc |-> "KeyError"]
    ELSE IF "description" \notin DOMAIN device THEN [entity |-> None, exc |-> "KeyError"]
    ELSE IF IsNone(device.description) THEN [entity |-> None, exc |-> "TypeError"]
    ELSE IF "name" \notin DOMAIN device.description
    THEN [entity |-> None, exc |-> "KeyError"]
    ELSE LET upd == update_properties(NewEntity, device) IN
         IF upd.exc = "none" THEN upd ELSE [entity |-> None, exc |-> upd.exc]

\* TechThermostat._handle_coordinator_update() of the entity of zone 1
\* (climate.py lines 175-186), the callback the coordinator of module m1 runs
\* between its refreshes, on task t, once it has data: the entity's zone is
\* looked up in the data's zones and update_properties runs on it; the
\* KeyError of either is caught and logged, any other exception leaves the
\* callback.
_handle_coordinator_update(t) ==
    /\ pc[t] = "idle"
    /\ ~IsNone(coordinator)
    /\ LET found == Lookup(DataOf(coordinator, modules).zones, 1)
           upd == update_properties(entity, found.entry) IN
       IF found.exc # "none" \/ upd.exc = "KeyError"
       THEN /\ Finish(t, "_handle_coordinator_update", ModuleArgs("m1"), Return, NoResp)
            /\ UNCHANGED entity
       ELSE /\ Finish(t, "_handle_coordinator_update", ModuleArgs("m1"), Exc(upd.exc),
                      NoResp)
            /\ entity' = upd.entity
    /\ UNCHANGED <<client, modules, update_lock, clock, now, server, coordinator>>

\* clear_module_cache(module_udid) (lines 561-571); "" and None are falsy.
clear_module_cache(udid) ==
    /\ modules' = IF udid # "" /\ udid # NoneStr
                  THEN IF udid \in DOMAIN modules
                       THEN [modules EXCEPT ![udid] = EmptyModule]
                       ELSE modules
                  ELSE EmptyDict
    /\ coordinator' = Detached(coordinator, modules, udid)
    /\ UNCHANGED <<client, update_lock, clock, pc, op, arg, now, inflight, last, server, entity>>

\* Time passes.
Tick ==
    /\ clock < MaxClock
    /\ clock' = clock + 1
    /\ UNCHANGED <<client, modules, update_lock, pc, op, arg, now, inflight, last, server, entity, coordinator>>

\* ---------------------------------------------------------- the inputs
\* Zone records a module payload may carry: valid ones in several versions,
\* and one of each kind the filter or the merge loop has to cope with.
ValidZones ==
    {[zone |-> [id |-> i, visibility |-> TRUE, zoneState |-> "zoneOn"],
      mode |-> [id |-> 10 + i]] : i \in Ids}
    \cup {[zone |-> [id |-> i, visibility |-> FALSE, zoneState |-> "zoneOff"],
           mode |-> [id |-> 10 + i]] : i \in Ids}
    \cup {[zone |-> [id |-> 1, visibility |-> TRUE]]}
InvalidZones ==
    {None,
     [mode |-> [id |-> 11]],
     [zone |-> None],
     [zone |-> [id |-> 1, zoneState |-> "zoneOn"]],
     [zone |-> [id |-> 1, visibility |-> TRUE, zoneState |-> "zoneUnregistered"]]}
ZoneWithoutId == [zone |-> [visibility |-> TRUE, zoneState |-> "zoneOn"]]
ZoneRecords == ValidZones \cup InvalidZones \cup {ZoneWithoutId}

VisibleTiles == {[id |-> i, visibility |-> TRUE, type |-> ty] : i \in Ids, ty \in {11, 40}}
HiddenTiles == {[id |-> 1, visibility |-> FALSE, type |-> 11], [id |-> 1, type |-> 11]}
TileWithoutId == [visibility |-> TRUE, type |-> 11]
TileRecords == VisibleTiles \cup HiddenTiles \cup {None, TileWithoutId}

SeqsUpTo(S, n) == UNION {[1..k -> S] : k \in 0..n}

\* Module payloads with at most MaxLen zone and tile records together, and
\* the payloads whose zones or tiles field is missing or null.
ListPayloads ==
    {[zones |-> [elements |-> List(zs), transaction_time |-> 0], tiles |-> List(ts)] :
        <<zs, ts>> \in {x \in SeqsUpTo(ZoneRecords, MaxLen) \X SeqsUpTo(TileRecords, MaxLen) :
                          Len(x[1]) + Len(x[2]) <= MaxLen}}
OddPayloads ==
    {[tiles |-> List(ts)] : ts \in SeqsUpTo(TileRecords, 1)}
    \cup {[zones |-> None, tiles |-> List(ts)] : ts \in SeqsUpTo(VisibleTiles, 1)}
    \cup {[zones |-> [transaction_time |-> 0], tiles |-> List(ts)] :
             ts \in SeqsUpTo(VisibleTiles, 1)}
    \cup {[zones |-> [elements |-> None, transaction_time |-> 0], tiles |-> List(ts)] :
             ts \in SeqsUpTo(VisibleTiles, 1)}
    \cup {[zones |-> [elements |-> List(zs), transaction_time |-> 0]] :
             zs \in SeqsUpTo(ZoneRecords, 1)}
    \cup {[zones |-> [elements |-> List(zs), transaction_time |-> 0], tiles |-> None] :
             zs \in SeqsUpTo(ValidZones, 1)}
Payloads == ListPayloads \cup OddPayloads

AuthResponses ==
    {Ok([authenticated |-> TRUE, user_id |-> u, token |-> k]) : u \in UserIds, k \in Tokens}
    \cup {Ok([authenticated |-> FALSE]), Ok([message |-> "no"])}
    \cup {Ok([authenticated |-> TRUE])}
    \cup {Ok([authenticated |-> TRUE, user_id |-> u]) : u \in UserIds}

\* ------------------------------------------------- the specifications
\* One task refreshes one module with every payload of Payloads.
InitMerge ==
    /\ InitClient("u1", "k1")
    /\ InitTasks

NextMerge ==
    \/ module_data(1, "module_data", "m1")
    \/ \E p \in Payloads : module_data_response(1, Ok(p))
    \/ get_module_zones(1, "get_module_zones", ModuleArgs("m1"))
    \/ \E p \in Payloads : get_module_zones_response(1, Ok(p))
    \/ get_module_tiles(1, "get_module_tiles", ModuleArgs("m1"))
    \/ \E p \in Payloads : get_module_tiles_response(1, Ok(p))
    \/ \E u \in {"m1", NoneStr} : clear_module_cache(u)

SpecMerge == InitMerge /\ [][NextMerge]_vars

\* One task repeats one refresh operation while the server keeps serving the
\* same payload. The initial states are the states right after the first such
\* refresh returned, for every payload and a cache that held entries before.
DictOf(records) == [i \in {r.id : r \in records} |-> CHOOSE r \in records : r.id = i]
ZoneDictOf(records) ==
    [i \in {r.zone.id : r \in records} |-> CHOOSE r \in records : r.zone.id = i]
StartCaches ==
    {[last_update |-> None, zones |-> ZoneDictOf(zs), tiles |-> DictOf(ts)] :
        zs \in {{}, {z \in ValidZones : z.zone.id = 1 /\ z.zone.visibility
                                          /\ "zoneState" \in DOMAIN z.zone},
                {z \in ValidZones : ~z.zone.visibility}},
        ts \in {{}, {tl \in VisibleTiles : tl.id = 2 /\ tl.type = 11}}}

FirstRefresh(o, mods, result) ==
    CASE o = "module_data" -> MergeModule(mods, "m1", result, 0)
      [] o = "get_module_zones" -> MergeZones(mods, "m1", result)
      [] o = "get_module_tiles" -> MergeTiles(mods, "m1", result)

InitRepeat ==
    /\ authenticated = TRUE /\ user_id = "u1" /\ token = "k1" /\ headers = Bearer("k1")
    /\ update_lock = [locked |-> FALSE, waiters |-> <<>>]
    /\ clock = 0
    /\ \E p \in Payloads, c \in StartCaches,
          o \in {"module_data", "get_module_zones", "get_module_tiles"} :
          LET m == FirstRefresh(o, [u \in {"m1"} |-> c], p) IN
          /\ m.exc = "none"
          /\ modules = m.mods
          /\ server = p
          /\ entity = None
          /\ coordinator = None
          /\ op = [t \in Tasks |-> IF t = 1 THEN o ELSE "none"]
    /\ arg = [t \in Tasks |-> IF t = 1 THEN ModuleArgs("m1") ELSE NoArgs]
    /\ pc = [t \in Tasks |-> "idle"]
    /\ now = [t \in Tasks |-> 0]
    /\ inflight = [t \in Tasks |-> None]
    /\ last = [t \in Tasks |-> NoLast]

NextRepeat ==
    \/ op[1] = "module_data" /\ module_data(1, "module_data", "m1")
    \/ module_data_response(1, Ok(server))
    \/ op[1] = "get_module_zones"
         /\ get_module_zones(1, "get_module_zones", ModuleArgs("m1"))
    \/ get_module_zones_response(1, Ok(server))
    \/ op[1] = "get_module_tiles"
         /\ get_module_tiles(1, "get_module_tiles", ModuleArgs("m1"))
    \/ get_module_tiles_response(1, Ok(server))

SpecRepeat == InitRepeat /\ [][NextRepeat]_vars

\* The tasks of an authenticated client run guarded refreshes of the modules,
\* and unguarded zone refreshes, concurrently.
LockResponses ==
    {Ok([zones |-> [elements |-> List(<<z>>), transaction_time |-> 0],
         tiles |-> List(<<tl>>)]) :
        z \in {x \in ValidZones : x.zone.id = 1 /\ x.zone.visibility
                                    /\ "zoneState" \in DOMAIN x.zone},
        tl \in {x \in VisibleTiles : x.id = 1 /\ x.type = 11}}
    \cup {Failure("status", 500)}

InitLock ==
    /\ InitClient("u1", "k1")
    /\ InitTasks

NextLock ==
    \/ \E t \in Tasks, o \in GuardedOps, u \in Udids : module_data(t, o, u)
    \/ \E t \in Tasks : module_data_acquired(t)
    \/ \E t \in Tasks, r \in LockResponses : module_data_response(t, r)
    \/ \E t \in Tasks, u \in Udids :
          get_module_zones(t, "get_module_zones", ModuleArgs(u))
    \/ \E t \in Tasks, r \in LockResponses : get_module_zones_response(t, r)

SpecLock == InitLock /\ [][NextLock]_vars

\* The tasks of an authenticated client refresh module m1 concurrently, guarded
\* (module_data) and unguarded (get_module_zones, get_module_tiles), while the
\* server answers with payloads that carry different versions of zone 1 and of
\* tile 1, with entries the filters drop, with two entries of one id, or fails.
RaceZone(visible, state) ==
    [zone |-> [id |-> 1, visibility |-> visible, zoneState |-> state], mode |-> [id |-> 11]]
RaceTile(visible, type) == [id |-> 1, visibility |-> visible, type |-> type]
RacePayload(zs, ts) ==
    [zones |-> [elements |-> List(zs), transaction_time |-> 0], tiles |-> List(ts)]
RacePayloads ==
    {RacePayload(<<RaceZone(TRUE, "zoneOn")>>, <<RaceTile(TRUE, 11)>>),
     RacePayload(<<RaceZone(FALSE, "zoneOff")>>, <<RaceTile(TRUE, 40)>>),
     RacePayload(<<RaceZone(TRUE, "zoneUnregistered")>>, <<RaceTile(FALSE, 11)>>),
     RacePayload(<<RaceZone(TRUE, "zoneOn"), RaceZone(FALSE, "zoneOff")>>,
                 <<RaceTile(TRUE, 11), RaceTile(TRUE, 40)>>)}
RaceResponses == {Ok(p) : p \in RacePayloads} \cup {Failure("status", 500)}

InitRace ==
    /\ InitClient("u1", "k1")
    /\ InitTasks

NextRace ==
    \/ \E t \in Tasks : module_data(t, "module_data", "m1")
    \/ \E t \in Tasks : module_data_acquired(t)
    \/ \E t \in Tasks, r \in RaceResponses : module_data_response(t, r)
    \/ \E t \in Tasks : get_module_zones(t, "get_module_zones", ModuleArgs("m1"))
    \/ \E t \in Tasks, r \in RaceResponses : get_module_zones_response(t, r)
    \/ \E t \in Tasks : get_module_tiles(t, "get_module_tiles", ModuleArgs("m1"))
    \/ \E t \in Tasks, r \in RaceResponses : get_module_tiles_response(t, r)

SpecRace == InitRace /\ [][NextRace]_vars

\* The tasks of an authenticated client run refreshes, lookups and
\* set_const_temp on the two modules concurrently; both modules use zone id 1
\* and tile id 1, and the server holds a different version of them for each
\* module.
ScopePayload(udid) ==
    IF udid = "m1" THEN RacePayload(<<RaceZone(TRUE, "zoneOn")>>, <<RaceTile(TRUE, 11)>>)
    ELSE RacePayload(<<RaceZone(FALSE, "zoneOff")>>, <<RaceTile(TRUE, 40)>>)

InitScope ==
    /\ InitClient("u1", "k1")
    /\ InitTasks

NextScope ==
    \/ \E t \in Tasks, u \in Udids : module_data(t, "module_data", u)
    \/ \E t \in Tasks : module_data_acquired(t)
    \/ \E t \in Tasks : module_data_response(t, Ok(ScopePayload(arg[t].udid)))
    \/ \E t \in Tasks, u \in Udids :
          get_module_zones(t, "get_module_zones", ModuleArgs(u))
    \/ \E u \in Udids : get_module_zones(1, "get_zone", Args(u, 1, 0, FALSE, ""))
    \/ \E u \in Udids : get_module_zones(1, "set_const_temp", Args(u, 1, 2150, FALSE, ""))
    \/ \E t \in Tasks : get_module_zones_response(t, Ok(ScopePayload(arg[t].udid)))
    \/ \E t \in Tasks, u \in Udids :
          get_module_tiles(t, "get_module_tiles", ModuleArgs(u))
    \/ \E u \in Udids : get_module_tiles(1, "get_tile", Args(u, 1, 0, FALSE, ""))
    \/ \E t \in Tasks : get_module_tiles_response(t, Ok(ScopePayload(arg[t].udid)))
    \/ request_response(1, Ok([result |-> "ok"]))

SpecScope == InitScope /\ [][NextScope]_vars

\* One task of an authenticated client runs the lookups and the commands on
\* two modules, and zone and tile refreshes that fill the caches, while the
\* caches are cleared at any moment; the server answers with a payload that
\* carries zone 1 and tile 1, zone 2 and tile 2, a zone without a mode, or no
\* entry at all, or fails. Temperatures are in hundredths of a degree.
Temps == {2150, 2155, -55}
CommandPayloads ==
    {RacePayload(<<RaceZone(TRUE, "zoneOn")>>, <<RaceTile(TRUE, 11)>>),
     RacePayload(<<[zone |-> [id |-> 2, visibility |-> TRUE, zoneState |-> "zoneOff"],
                    mode |-> [id |-> 12]]>>,
                 <<[id |-> 2, visibility |-> TRUE, type |-> 40]>>),
     RacePayload(<<[zone |-> [id |-> 1, visibility |-> TRUE]]>>, <<>>),
     RacePayload(<<>>, <<>>)}
CommandResponses == {Ok(p) : p \in CommandPayloads} \cup Failures

InitCommand ==
    /\ InitClient("u1", "k1")
    /\ InitTasks

NextCommand ==
    \/ \E u \in Udids : get_module_zones(1, "get_module_zones", ModuleArgs(u))
    \/ \E u \in Udids, i \in Ids : get_module_zones(1, "get_zone", Args(u, i, 0, FALSE, ""))
    \/ \E u \in Udids, i \in Ids, c \in Temps :
          get_module_zones(1, "set_const_temp", Args(u, i, c, FALSE, ""))
    \/ \E r \in CommandResponses : get_module_zones_response(1, r)
    \/ \E u \in Udids : get_module_tiles(1, "get_module_tiles", ModuleArgs(u))
    \/ \E u \in Udids, i \in Ids : get_module_tiles(1, "get_tile", Args(u, i, 0, FALSE, ""))
    \/ \E r \in CommandResponses : get_module_tiles_response(1, r)
    \/ \E u \in Udids, i \in Ids, on \in BOOLEAN :
          request(1, "set_zone", Args(u, i, 0, on, ""))
    \/ \E r \in {Ok([result |-> "ok"])} \cup Failures : request_response(1, r)
    \/ \E u \in Udids \cup {""} : clear_module_cache(u)

SpecCommand == InitCommand /\ [][NextCommand]_vars

\* One task of an authenticated client refreshes the two modules, guarded and
\* unguarded, and clears their caches; the server answers a request with the
\* payload of its module or fails in every way the transport knows.
InitFail ==
    /\ InitClient("u1", "k1")
    /\ InitTasks

NextFail ==
    \/ \E o \in GuardedOps, u \in Udids : module_data(1, o, u)
    \/ pc[1] = "fetch" /\ \E r \in {Ok(ScopePayload(arg[1].udid))} \cup Failures :
          module_data_response(1, r)
    \/ \E u \in Udids : get_module_zones(1, "get_module_zones", ModuleArgs(u))
    \/ pc[1] = "fetch" /\ \E r \in {Ok(ScopePayload(arg[1].udid))} \cup Failures :
          get_module_zones_response(1, r)
    \/ \E u \in Udids : get_module_tiles(1, "get_module_tiles", ModuleArgs(u))
    \/ pc[1] = "fetch" /\ \E r \in {Ok(ScopePayload(arg[1].udid))} \cup Failures :
          get_module_tiles_response(1, r)
    \/ \E u \in Udids : clear_module_cache(u)

SpecFail == InitFail /\ [][NextFail]_vars

\* The tasks of an authenticated client refresh module m1 under the lock, by
\* module_data or by the coordinator, whose timeout may cancel its refresh at
\* any moment; the server answers, with a payload that merges, with one whose
\* merge raises, or with a failure.  A task that can take the freed lock takes
\* it (the event loop runs a woken waiter), and every fetch ends (the
\* transport answers, fails or times out).
GuardResponses ==
    {Ok(RacePayload(<<RaceZone(TRUE, "zoneOn")>>, <<RaceTile(TRUE, 11)>>)),
     Ok(RacePayload(<<RaceZone(TRUE, "zoneOn")>>, <<None>>)),
     Failure("status", 401), Failure("Timeout", 0)}

InitGuard ==
    /\ InitClient("u1", "k1")
    /\ InitTasks

NextGuard ==
    \/ \E t \in Tasks, o \in GuardedOps : module_data(t, o, "m1")
    \/ \E t \in Tasks : module_data_acquired(t)
    \/ \E t \in Tasks, r \in GuardResponses : module_data_response(t, r)
    \/ \E t \in Tasks : cancel(t)
    \/ \E t \in Tasks : timeout_raises(t)

SpecGuard ==
    /\ InitGuard /\ [][NextGuard]_vars
    /\ \A t \in Tasks :
          /\ WF_vars(module_data_acquired(t))
          /\ WF_vars(timeout_raises(t))
          /\ WF_vars(\E r \in GuardResponses : module_data_response(t, r))

\* The climate entity of zone 1 of module m1 with its coordinator.  The entity
\* was built from zone 1 of the cache (climate.py lines 63-66, 112) after the
\* coordinator's first refresh.  Task 1 sets 21.5 degrees, task 2 is the
\* coordinator's refresh, the callback runs when either is idle, and the cache
\* is cleared.  The server reports zone 1 with a setTemperature of 20 or 22
\* degrees, during a change or not, or without one, or with null flags, or
\* reports zone 2 alone, or an invisible zone 1, or fails.
PollZone(id, fields) ==
    [zone |-> [n \in {"id", "visibility"} \cup DOMAIN fields |->
                  IF n = "id" THEN id ELSE IF n = "visibility" THEN TRUE ELSE fields[n]],
     description |-> [name |-> "Zone"], mode |-> [id |-> 11]]
PollFields ==
    {[setTemperature |-> 200, duringChange |-> TRUE],
     [setTemperature |-> 220, duringChange |-> TRUE],
     [setTemperature |-> 200, duringChange |-> FALSE],
     [setTemperature |-> 220],
     [duringChange |-> TRUE],
     [duringChange |-> FALSE],
     [setTemperature |-> 200, flags |-> None],
     [setTemperature |-> 220, duringChange |-> TRUE, flags |-> None]}
PollZones == {PollZone(1, f) : f \in PollFields}
\* The zones an entity can be built from.
PollDevices == {z \in PollZones : TechThermostat(z).exc = "none"}
PollResponses ==
    {Ok(RacePayload(<<z>>, <<>>)) : z \in PollZones}
        \cup {Ok(RacePayload(<<PollZone(2, [setTemperature |-> 200])>>, <<>>)),
              Ok(RacePayload(<<RaceZone(FALSE, "zoneOff")>>, <<>>)),
              Failure("status", 500)}
PollTasks == {1, 2}

InitPoll ==
    /\ authenticated = TRUE /\ user_id = "u1" /\ token = "k1" /\ headers = Bearer("k1")
    /\ update_lock = [locked |-> FALSE, waiters |-> <<>>]
    /\ clock = 0
    /\ server = None
    /\ \E z \in PollDevices :
          /\ modules = [u \in {"m1"} |->
                           [last_update |-> [time |-> 0], zones |-> Put(EmptyDict, 1, z),
                            tiles |-> EmptyDict]]
          /\ entity = TechThermostat(z).entity
    /\ coordinator = Live
    /\ InitTasks

\* The climate entity of zone 1 of module m1, built as InitPoll has it: it is
\* asked for temperatures inside, on and outside the bounds, or for none,
\* while the coordinator's callback runs and the cache is cleared; the server
\* answers the zone refresh with zone 1, with a payload without zone 1, or
\* fails, and accepts or fails the POST.
Temperatures == {499, 500, 2150, 3500, 3501}
Kwargs == {None} \cup {[temp |-> c] : c \in Temperatures}
ClimateResponses ==
    {Ok(RacePayload(<<RaceZone(TRUE, "zoneOn")>>, <<>>)),
     Ok(RacePayload(<<>>, <<>>)),
     Failure("status", 500), Failure("Timeout", 0)}

NextClimate ==
    \/ \E k \in Kwargs : async_set_temperature(1, k)
    \/ \E r \in ClimateResponses : get_module_zones_response(1, r)
    \/ \E r \in {Ok([result |-> "ok"]), Failure("status", 401), Failure("Timeout", 0)} :
          request_response(1, r)
    \/ async_request_refresh_returns(1)
    \/ _handle_coordinator_update(2)
    \/ clear_module_cache("m1")

SpecClimate == InitPoll /\ [][NextClimate]_vars

NextPoll ==
    \/ async_set_temperature(1, [temp |-> 2150])
    \/ \E r \in PollResponses : get_module_zones_response(1, r)
    \/ \E r \in {Ok([result |-> "ok"]), Failure("status", 500)} : request_response(1, r)
    \/ async_request_refresh_returns(1)
    \/ module_data(2, "_async_update_data", "m1")
    \/ \E r \in PollResponses : module_data_response(2, r)
    \/ \E t \in PollTasks : _handle_coordinator_update(t)
    \/ \E u \in {"m1", NoneStr} : clear_module_cache(u)

SpecPoll == InitPoll /\ [][NextPoll]_vars

\* Time passes while the tasks of an authenticated client refresh module m1,
\* guarded and unguarded, task 1 also looks up and commands zone 1 and tile 1,
\* and the caches are cleared.  The server answers each request with the
\* version of zone 1 and tile 1 it holds when the request is issued, or fails.
VersionPayload(v) ==
    [zones |-> [elements |-> List(<<[zone |-> [id |-> 1, visibility |-> TRUE,
                                               zoneState |-> "zoneOn",
                                               currentTemperature |-> v],
                                     mode |-> [id |-> 11]]>>),
                transaction_time |-> v],
     tiles |-> List(<<[id |-> 1, visibility |-> TRUE, type |-> 11, version |-> v]>>)]
StampResponses(t) == {Ok(VersionPayload(inflight[t].issued)), Failure("status", 500)}
StampArgs == Args("m1", 1, 2150, FALSE, "en")

InitStamp ==
    /\ InitClient("u1", "k1")
    /\ InitTasks

NextStamp ==
    \/ Tick
    \/ \E t \in Tasks : module_data(t, "module_data", "m1")
    \/ \E t \in Tasks : module_data_acquired(t)
    \/ \E t \in Tasks :
          pc[t] = "fetch" /\ \E r \in StampResponses(t) : module_data_response(t, r)
    \/ \E o \in ZoneOps : get_module_zones(1, o, StampArgs)
    \/ pc[1] = "fetch" /\ \E r \in StampResponses(1) : get_module_zones_response(1, r)
    \/ \E o \in TileOps : get_module_tiles(1, o, StampArgs)
    \/ pc[1] = "fetch" /\ \E r \in StampResponses(1) : get_module_tiles_response(1, r)
    \/ request(1, "set_zone", StampArgs)
    \/ \E r \in {Ok([result |-> "ok"]), Failure("Timeout", 0)} : request_response(1, r)
    \/ \E u \in {"m1", NoneStr} : clear_module_cache(u)

SpecStamp == InitStamp /\ [][NextStamp]_vars

\* A client created with or without credentials: task 1 runs the operations
\* while any task authenticates, against a server that accepts, rejects or
\* fails.
TechOps == ZoneOps \cup TileOps \cup RequestOps \cup {"module_data"}
AuthPayload ==
    [zones |-> [elements |-> List(<<[zone |-> [id |-> 1, visibility |-> TRUE,
                                               zoneState |-> "zoneOn"],
                                     mode |-> [id |-> 11]]>>),
                transaction_time |-> 0],
     tiles |-> List(<<[id |-> 1, visibility |-> TRUE, type |-> 11]>>)]
AuthArgs == {Args("m1", i, 2150, FALSE, "de") : i \in Ids}

NextAuth ==
    \/ \E t \in Tasks : authenticate(t)
    \/ \E t \in Tasks, r \in AuthResponses \cup Failures : authenticate_response(t, r)
    \/ \E o \in GuardedOps : module_data(1, o, "m1")
    \/ \E r \in {Ok(AuthPayload)} \cup Failures : module_data_response(1, r)
    \/ \E o \in ZoneOps, a \in AuthArgs : get_module_zones(1, o, a)
    \/ \E r \in {Ok(AuthPayload)} \cup Failures : get_module_zones_response(1, r)
    \/ \E o \in TileOps, a \in AuthArgs : get_module_tiles(1, o, a)
    \/ \E r \in {Ok(AuthPayload)} \cup Failures : get_module_tiles_response(1, r)
    \/ \E o \in RequestOps, a \in AuthArgs : request(1, o, a)
    \/ \E r \in {Ok([result |-> "ok"])} \cup Failures : request_response(1, r)

SpecAuth == Init /\ [][NextAuth]_vars

\* A client created with or without credentials: task 1 runs the operations
\* in any language while task 2 authenticates and the caches are cleared, and
\* the server accepts, rejects or fails.
Languages == {"en", "pl", "de"}
CredArgs == {Args("m1", 1, 2150, FALSE, l) : l \in Languages}
NextCred ==
    \/ authenticate(2)
    \/ \E r \in AuthResponses \cup Failures : authenticate_response(2, r)
    \/ \E o \in GuardedOps : module_data(1, o, "m1")
    \/ \E r \in {Ok(AuthPayload)} \cup Failures : module_data_response(1, r)
    \/ \E o \in ZoneOps : get_module_zones(1, o, Args("m1", 1, 2150, FALSE, "en"))
    \/ \E r \in {Ok(AuthPayload)} \cup Failures : get_module_zones_response(1, r)
    \/ \E o \in TileOps : get_module_tiles(1, o, Args("m1", 1, 2150, FALSE, "en"))
    \/ \E r \in {Ok(AuthPayload)} \cup Failures : get_module_tiles_response(1, r)
    \/ \E o \in RequestOps \ {"get_translations"} :
            request(1, o, Args("m1", 1, 2150, FALSE, "en"))
    \/ \E a \in CredArgs : request(1, "get_translations", a)
    \/ \E r \in {Ok([result |-> "ok"])} \cup Failures : request_response(1, r)
    \/ \E u \in {"m1", NoneStr} : clear_module_cache(u)

SpecCred == Init /\ [][NextCred]_vars

\* ------------------------------------------------------------ the claims
RefreshOps == {"module_data", "_async_update_data", "get_module_zones", "get_module_tiles"}
\* Task t ends a call in this step.
Ends(t) == pc[t] # "idle" /\ pc'[t] = "idle"

\* C2: merge is monotonic. In every step other than a clear_module_cache, every
\* module record stays, every cached zone id and tile id stays, and the entry
\* of an id changes only when the response merged in this step carries a record
\* with that id (so an empty or missing zones or tiles array changes nothing).
C2_Kept ==
    \A m \in DOMAIN modules :
        /\ m \in DOMAIN modules'
        /\ \A id \in DOMAIN modules[m].zones :
              /\ id \in DOMAIN modules'[m].zones
              /\ modules'[m].zones[id] # modules[m].zones[id]
                    => \E t \in Tasks : Ends(t) /\ id \in last'[t].zoneIds
        /\ \A id \in DOMAIN modules[m].tiles :
              /\ id \in DOMAIN modules'[m].tiles
              /\ modules'[m].tiles[id] # modules[m].tiles[id]
                    => \E t \in Tasks : Ends(t) /\ id \in last'[t].tileIds
C2_MergeMonotonic ==
    [][(\E u \in Udids \cup {"", NoneStr} : clear_module_cache(u)) \/ C2_Kept]_vars
\* A refresh returned, and the cache holds a zone and a tile whose ids the
\* response did not carry.
C2_Witness ==
    /\ last[1].op = "module_data" /\ last[1].kind = "return"
    /\ "m1" \in DOMAIN modules
    /\ \E id \in DOMAIN modules["m1"].zones : id \notin last[1].zoneIds
    /\ \E id \in DOMAIN modules["m1"].tiles : id \notin last[1].tileIds

\* C3: every cached zone is admissible (non-null, with a non-null "zone"
\* sub-record that has a visibility field and a zone-state other than
\* "zoneUnregistered"), and a payload whose only anomaly is records that are
\* not admissible makes no refresh fail.
C3_ZonesAdmissible ==
    /\ \A m \in DOMAIN modules : \A id \in DOMAIN modules[m].zones :
          Admissible(modules[m].zones[id])
    /\ \A t \in Tasks :
          (/\ last[t].op \in {"module_data", "get_module_zones"}
           /\ last[t].resp = "ok" /\ last[t].wellformed /\ last[t].present)
          => last[t].kind = "return"
\* A get_module_zones returned on a payload with a zone record that is not
\* admissible (all of them have id 1) and a valid one with id 2: zone 2 is
\* cached, zone 1 is not.
C3_Witness ==
    /\ last[1].op = "get_module_zones" /\ last[1].kind = "return"
    /\ last[1].dropped /\ last[1].zoneIds = {1, 2}
    /\ DOMAIN modules["m1"].zones = {2}

\* C4: every cached tile has its visibility flag true, and a payload whose
\* only anomaly is tiles with visibility false or absent makes no refresh fail.
C4_TilesVisible ==
    /\ \A m \in DOMAIN modules : \A id \in DOMAIN modules[m].tiles :
          Visible(modules[m].tiles[id])
    /\ \A t \in Tasks :
          (/\ last[t].op \in {"module_data", "get_module_tiles"}
           /\ last[t].resp = "ok" /\ last[t].wellformed /\ last[t].present)
          => last[t].kind = "return"
\* A get_module_tiles returned on a payload with a tile that is not visible
\* (all of them have id 1) and a visible one with id 2: tile 2 is cached,
\* tile 1 is not.
C4_Witness ==
    /\ last[1].op = "get_module_tiles" /\ last[1].kind = "return"
    /\ last[1].dropped /\ last[1].tileIds = {1, 2}
    /\ DOMAIN modules["m1"].tiles = {2}

\* C5: a refresh that received a module payload (status 200, decoded) returns
\* normally whatever data-level anomaly the payload has.
C5_AnomaliesTolerated ==
    \A t \in Tasks :
        (/\ last[t].op \in RefreshOps
         /\ last[t].resp = "ok" /\ last[t].present)
        => last[t].kind = "return"

\* The zones and the tiles of every module record.
Cache == [m \in DOMAIN modules |-> <<modules[m].zones, modules[m].tiles>>]

\* C10: repeated refresh is idempotent. After a refresh with payload P
\* returned, every further refresh by the same operation that receives P and
\* returns leaves the cached zones and tiles as they were after the first.
C10_RepeatIdempotent ==
    [][(Ends(1) /\ last'[1].kind = "return") => Cache' = Cache]_vars
\* A repeated module_data returned on a payload that carries zone 1 and a
\* tile, with zone 2 cached from before.
C10_Witness ==
    /\ last[1].op = "module_data" /\ last[1].kind = "return"
    /\ last[1].zoneIds = {1} /\ last[1].tileIds # {}
    /\ 2 \in DOMAIN modules["m1"].zones

\* C1: at most one guarded refresh holds the update lock, so at most one
\* fetch of a guarded refresh is in flight, whatever the modules.
Holding == {t \in Tasks : pc[t] = "fetch" /\ op[t] \in GuardedOps}
C1_SingleFlight ==
    /\ Cardinality(Holding) <= 1
    /\ Holding # {} => update_lock.locked
\* One guarded refresh awaits its fetch while another one, for a different
\* module, waits for the lock.
C1_Witness ==
    \E t1, t2 \in Tasks :
        /\ pc[t1] = "fetch" /\ op[t1] \in GuardedOps
        /\ pc[t2] = "wait_lock"
        /\ arg[t1].udid # arg[t2].udid

\* C6: while the session is unauthenticated, a call of any operation other
\* than authenticate fails with the login error (TechLoginError), issues no
\* request and leaves the cache as it is.
C6_Called(t) ==
    /\ pc[t] = "idle"
    /\ ~authenticated
    /\ pc'[t] # "idle" \/ last'[t] # last[t]
    /\ op'[t] \in TechOps
C6_UnauthenticatedRejected ==
    [][\A t \in Tasks :
          C6_Called(t) =>
             /\ last'[t].kind = "TechLoginError"
             /\ pc'[t] = "idle" /\ inflight'[t] = None /\ last'[t].sent = 0
             /\ modules' = modules]_vars

\* C7: an authenticate the server does not accept (a status other than 200, or
\* 200 with authenticated false or absent) raises the login error; it never
\* returns False.
C7_RejectedRaises ==
    \A t \in Tasks :
        (/\ last[t].op = "authenticate"
         /\ \/ last[t].resp = "status"
            \/ last[t].resp = "ok" /\ last[t].value # "True")
        => last[t].kind = "TechLoginError"

\* C8: when an authenticate call fails (raises), the session is
\* unauthenticated afterwards, whatever it was before.
C8_FailedLeavesUnauthenticated ==
    [][\A t \in Tasks :
          (pc[t] = "auth" /\ pc'[t] = "idle" /\ last'[t].kind # "return")
          => ~authenticated']_vars

\* C9: a polling refresh (_async_update_data) of an expired session (the
\* server answers 401, or the client is unauthenticated) raises
\* ConfigEntryAuthFailed; every other transport failure raises UpdateFailed.
C9_ExpiredSessionReauthenticates ==
    \A t \in Tasks :
        last[t].op = "_async_update_data" =>
            /\ (last[t].sent = 0 \/ (last[t].resp = "status" /\ last[t].rstatus = 401))
                  => last[t].kind = "ConfigEntryAuthFailed"
            /\ (last[t].sent = 1 /\ last[t].resp # "ok"
                   /\ ~(last[t].resp = "status" /\ last[t].rstatus = 401))
                  => last[t].kind = "UpdateFailed"

\* The valid entries a module payload carries, by id; of two entries with one
\* id the later one of the array.
ZonesCarried(result) ==
    LET ex == ExtractZones(result)
        zs == IF ex.exc # "none" \/ IsNone(ex.zones) THEN <<>> ELSE ex.zones.list
        good(j) == Admissible(zs[j]) /\ "id" \in DOMAIN zs[j].zone
        at(i) == {j \in 1..Len(zs) : good(j) /\ zs[j].zone.id = i} IN
    [i \in {zs[j].zone.id : j \in {k \in 1..Len(zs) : good(k)}} |->
        zs[CHOOSE j \in at(i) : \A k \in at(i) : k <= j]]
TilesCarried(result) ==
    LET tiles == ExtractTiles(result)
        ts == IF IsNone(tiles) THEN <<>> ELSE tiles.list
        good(j) == Visible(ts[j]) /\ "id" \in DOMAIN ts[j]
        at(i) == {j \in 1..Len(ts) : good(j) /\ ts[j].id = i} IN
    [i \in {ts[j].id : j \in {k \in 1..Len(ts) : good(k)}} |->
        ts[CHOOSE j \in at(i) : \A k \in at(i) : k <= j]]

\* This step is task t merging the response r.
Merges(t, r) ==
    /\ r.kind = "ok"
    /\ \/ module_data_response(t, r)
       \/ get_module_zones_response(t, r)
       \/ get_module_tiles_response(t, r)
\* In this step the dict d of module u becomes d with the entries of `carried`
\* written over it: the carried ids hold the carried entries, every other id
\* holds what it held.
Overwritten(d, dNext, carried) ==
    /\ DOMAIN dNext = (DOMAIN d) \cup (DOMAIN carried)
    /\ \A id \in DOMAIN dNext :
          dNext[id] = IF id \in DOMAIN carried THEN carried[id] ELSE d[id]

\* C11: the last writer of an id wins. Whatever the interleaving of unguarded
\* zone and tile refreshes with each other and with guarded refreshes, the
\* step that merges a response leaves, for every id the response carries a
\* valid entry for, exactly that entry in the cache, and leaves every other id
\* as it was; no other step changes an entry. So once all calls have
\* completed, the entry of an id is the entry of the response merged last among
\* those carrying it.
C11_LastWriterWins ==
    [][/\ \A t \in Tasks, r \in RaceResponses :
             Merges(t, r) =>
                LET u == arg[t].udid IN
                /\ Overwritten(modules[u].zones, modules'[u].zones,
                               IF op[t] \in TileOps THEN EmptyDict
                               ELSE ZonesCarried(r.json))
                /\ Overwritten(modules[u].tiles, modules'[u].tiles,
                               IF op[t] \in ZoneOps THEN EmptyDict
                               ELSE TilesCarried(r.json))
       /\ (~\E t \in Tasks, r \in RaceResponses : Merges(t, r)) =>
             \A u \in DOMAIN modules :
                /\ modules'[u].zones = modules[u].zones
                /\ modules'[u].tiles = modules[u].tiles]_vars
\* All calls have completed; an unguarded zone refresh and a guarded refresh
\* both merged a response carrying zone 1, and the cache holds the version of
\* zone 1 with visibility false.
C11_Witness ==
    /\ \A t \in Tasks : pc[t] = "idle"
    /\ \E t1, t2 \in Tasks :
          /\ last[t1].op = "get_module_zones" /\ last[t1].kind = "return"
          /\ last[t2].op = "module_data" /\ last[t2].kind = "return"
          /\ 1 \in last[t1].zoneIds /\ 1 \in last[t2].zoneIds
    /\ 1 \in DOMAIN modules["m1"].zones /\ 1 \in DOMAIN modules["m1"].tiles
    /\ modules["m1"].zones[1] = RaceZone(FALSE, "zoneOff")
    /\ modules["m1"].tiles[1] = RaceTile(TRUE, 11)

\* Task t begins a call of operation o in this step.
Calls(t, o) ==
    /\ pc[t] = "idle"
    /\ op'[t] = o
    /\ pc'[t] # "idle" \/ last'[t] # last[t]
\* The id of the call of task t is among the cached zones of its module.
ZoneCached(mods, a) == a.udid \in DOMAIN mods /\ a.id \in DOMAIN mods[a.udid].zones

\* C12: set_const_temp on a zone that is in the cache when it is called issues
\* no module-payload fetch.
C12_CachedZoneNoFetch ==
    [][\A t \in Tasks :
          (Calls(t, "set_const_temp") /\ ZoneCached(modules, arg'[t]))
          => ~(pc'[t] = "fetch" /\ inflight'[t].method = "GET")]_vars

\* C13: when the zone refresh of set_const_temp completed and the zone id is
\* still absent from the module's cached zones, the call raises KeyError (which
\* is neither TechError nor TechLoginError) and posts nothing: its only request
\* was the fetch.
C13_AbsentZoneNotFound ==
    [][\A t \in Tasks :
          (/\ pc[t] = "fetch" /\ op[t] = "set_const_temp" /\ pc'[t] # "fetch"
           /\ pc'[t] = "idle" => last'[t].resp = "ok"
           /\ ~ZoneCached(modules', arg[t]))
          => /\ pc'[t] = "idle"
             /\ inflight'[t] = None
             /\ last'[t].kind = "KeyError"
             /\ last'[t].sent = 1]_vars
\* A set_const_temp for zone 2 raised KeyError after a refresh whose response
\* carried zone 1 only; zone 1 is cached, zone 2 is not.
C13_Witness ==
    /\ last[1].op = "set_const_temp" /\ last[1].kind = "KeyError"
    /\ arg[1].id = 2 /\ last[1].zoneIds = {1}
    /\ arg[1].udid \in DOMAIN modules
    /\ DOMAIN modules[arg[1].udid].zones = {1}

\* v is c/10 truncated towards zero, c being a temperature in hundredths of a
\* degree: the temperature times 10, truncated to an integer.
Truncated(c, v) ==
    IF c >= 0 THEN v * 10 <= c /\ c < v * 10 + 10
    ELSE v * 10 >= c /\ c > v * 10 - 10

\* C14: the body set_const_temp posts has setTemperature equal to the target
\* times 10 truncated to an integer (21.5 gives 215), mode id equal to the mode
\* id of the cached zone, parentId equal to the zone id, mode "constantTemp" and
\* constTempTime 60; it is posted to the zones path of the module.
C14_ConstTempBody ==
    [][\A t \in Tasks :
          (op'[t] = "set_const_temp" /\ pc'[t] = "post" /\ pc[t] # "post")
          => LET a == arg'[t]
                 req == inflight'[t]
                 body == req.data.mode IN
             /\ req.method = "POST"
             /\ req.path = <<"users", user_id, "modules", a.udid, "zones">>
             /\ DOMAIN req.data = {"mode"}
             /\ ZoneCached(modules', a)
             /\ body.id = modules'[a.udid].zones[a.id].mode.id
             /\ body.parentId = a.id
             /\ body.mode = "constantTemp"
             /\ body.constTempTime = 60
             /\ Truncated(a.target_temp, body.setTemperature)
             /\ a.target_temp = 2150 => body.setTemperature = 215]_vars
\* set_const_temp awaits its POST for target 21.55 with setTemperature 215,
\* for zone 2 whose mode id is 12.
C14_Witness ==
    /\ pc[1] = "post" /\ op[1] = "set_const_temp"
    /\ arg[1].target_temp = 2155 /\ arg[1].id = 2
    /\ inflight[1].data.mode.setTemperature = 215
    /\ inflight[1].data.mode.id = 12

\* C15: set_zone on an authenticated client posts one request to the zones
\* path of the module whose body has the zone id and zoneState "zoneOn" when on
\* is true and "zoneOff" when it is false, whether or not the module or the
\* zone is cached; it fetches no module payload and leaves the cache as it is.
C15_SetZonePosts ==
    [][\A t \in Tasks :
          /\ (Calls(t, "set_zone") /\ authenticated)
             => LET a == arg'[t] IN
                /\ pc'[t] = "post"
                /\ inflight'[t] =
                      [method |-> "POST",
                       path |-> <<"users", user_id, "modules", a.udid, "zones">>,
                       data |-> [zone |-> [id |-> a.id,
                                           zoneState |-> IF a.on THEN "zoneOn"
                                                         ELSE "zoneOff"]],
                       headers |-> headers, issued |-> clock]
                /\ last'[t].sent = 1
                /\ modules' = modules
          /\ (pc[t] = "post" /\ op[t] = "set_zone" /\ pc'[t] # "post")
             => /\ pc'[t] = "idle"
                /\ inflight'[t] = None
                /\ last'[t].sent = 1
                /\ modules' = modules]_vars
\* set_zone awaits its POST of "zoneOff" for a module that has no record.
C15_Witness ==
    /\ pc[1] = "post" /\ op[1] = "set_zone"
    /\ ~arg[1].on
    /\ arg[1].udid \notin DOMAIN modules
    /\ inflight[1].data.zone.zoneState = "zoneOff"

\* C16: clear_module_cache given an identifier resets the record of that
\* module to the empty one and leaves the record of every other module as it
\* is, whatever the identifier; it issues no request.
C16_ClearScoped ==
    [][\A u \in Udids \cup {""} :
          clear_module_cache(u)
          => /\ \A m \in (DOMAIN modules) \ {u} :
                   m \in DOMAIN modules' /\ modules'[m] = modules[m]
             /\ u \in DOMAIN modules => modules'[u] = EmptyModule
             /\ inflight' = inflight]_vars

\* C18: get_zone and get_tile first fetch the module payload; when the refresh
\* completed they return the entry the cache holds for the id, also one the
\* response did not carry, and raise KeyError (neither TechError nor
\* TechLoginError) when the cache holds none.
C18_LookupAfterRefresh ==
    [][\A t \in Tasks :
          /\ (Calls(t, "get_zone") \/ Calls(t, "get_tile"))
             => pc'[t] = "fetch" /\ inflight'[t].method = "GET"
                   /\ inflight'[t].path = <<"users", user_id, "modules", arg'[t].udid>>
          /\ (/\ pc[t] = "fetch" /\ op[t] \in {"get_zone", "get_tile"}
              /\ pc'[t] = "idle" /\ last'[t].resp = "ok")
             => LET u == arg[t].udid
                    d == IF u \notin DOMAIN modules' THEN EmptyDict
                         ELSE IF op[t] = "get_zone" THEN modules'[u].zones
                         ELSE modules'[u].tiles IN
                IF arg[t].id \in DOMAIN d
                THEN last'[t].kind = "return" /\ last'[t].entry = d[arg[t].id]
                ELSE last'[t].kind = "KeyError"]_vars
\* get_zone returned zone 1 after a refresh whose response carried zone 2 only.
C18_Witness ==
    /\ last[1].op = "get_zone" /\ last[1].kind = "return"
    /\ arg[1].id = 1 /\ last[1].zoneIds = {2}
    /\ last[1].entry = RaceZone(TRUE, "zoneOn")

\* Task t takes this step.
Acts(t) == pc'[t] # pc[t] \/ last'[t] # last[t] \/ inflight'[t] # inflight[t]

\* C17: cache entries are scoped per module. A step of a refresh, a lookup or
\* a set_const_temp for module A leaves the record of every other module B as
\* it is: its zones, its tiles and its timestamp, also when A and B use the same
\* ids and their operations interleave.
C17_ModuleScoped ==
    [][\A b \in DOMAIN modules :
          /\ b \in DOMAIN modules'
          /\ modules'[b] # modules[b] => \E t \in Tasks : Acts(t) /\ arg'[t].udid = b]_vars
\* The two modules cache different versions of zone 1 and of tile 1 and only
\* m1 has a timestamp, while a refresh of m2 is in flight and the last call of
\* another task was for m1.
C17_Witness ==
    /\ DOMAIN modules = {"m1", "m2"}
    /\ 1 \in DOMAIN modules["m1"].zones /\ 1 \in DOMAIN modules["m2"].zones
    /\ 1 \in DOMAIN modules["m1"].tiles /\ 1 \in DOMAIN modules["m2"].tiles
    /\ modules["m1"].zones[1] # modules["m2"].zones[1]
    /\ modules["m1"].tiles[1] # modules["m2"].tiles[1]
    /\ modules["m1"].last_update # modules["m2"].last_update
    /\ \E t1, t2 \in Tasks :
          /\ pc[t1] = "idle" /\ last[t1].udid = "m1" /\ last[t1].kind = "return"
          /\ pc[t2] = "fetch" /\ arg[t2].udid = "m2"

TransportFailures == {"status", "JSONDecodeError", "ClientError", "Timeout"}

\* C19: a call of any operation, authenticate included, whose request failed
\* (status other than 200, undecodable body, connection error, timeout) raises
\* TechError or TechLoginError; when the request timed out it raises TechError
\* with status 408.
C19_TransportFailuresTyped ==
    \A t \in Tasks :
        (last[t].op \in TechOps \cup {"authenticate"} /\ last[t].resp \in TransportFailures)
        => /\ last[t].kind \in {"TechError", "TechLoginError"}
           /\ last[t].resp = "Timeout" => last[t].kind = "TechError" /\ last[t].status = 408

\* C20: on an authenticated client every call of module_data, get_module_zones
\* and get_module_tiles issues exactly one request, the GET of the module
\* payload, also when the fetch fails: while the call awaits the fetch and
\* when it has ended it has issued one request, and after it ended none is in
\* flight.
C20_OneFetchPerCall ==
    \A t \in Tasks :
        /\ pc[t] = "wait_lock" => inflight[t] = None
        /\ pc[t] = "fetch"
              => /\ last[t].sent = 1
                 /\ inflight[t].method = "GET"
                 /\ inflight[t].path = <<"users", user_id, "modules", arg[t].udid>>
        /\ (pc[t] = "idle" /\ last[t].op \in {"module_data", "get_module_zones",
                                               "get_module_tiles"})
              => last[t].sent = 1 /\ inflight[t] = None
\* A guarded refresh failed with the error of its one fetch, and an unguarded
\* refresh of another task returned.
C20_Witness ==
    \E t1, t2 \in Tasks :
        /\ pc[t1] = "idle" /\ last[t1].op = "module_data"
        /\ last[t1].resp = "status" /\ last[t1].kind = "TechError" /\ last[t1].sent = 1
        /\ pc[t2] = "idle" /\ last[t2].op = "get_module_tiles"
        /\ last[t2].kind = "return" /\ last[t2].sent = 1

\* C21: whenever the session is authenticated, the Authorization header
\* carries the stored token ("Bearer <token>"), so every request sent while
\* authenticated carries it.
C21_AuthorizedCarriesToken ==
    authenticated =>
        /\ "Authorization" \in DOMAIN headers
        /\ headers.Authorization = <<"Bearer", token>>


\* C22: the credentials (user id, token, flag, headers) change only in the
\* step in which an authenticate ends; every other step, among them the end
\* of a request that fails with 401, a network error or a timeout, leaves
\* them as they are.
C22_OnlyAuthenticateWrites ==
    [][client' # client =>
          \E t \in Tasks : op[t] = "authenticate" /\ pc[t] = "auth" /\ Ends(t)]_vars
\* An operation other than authenticate got a 401 answer and the session
\* still holds its credentials.
C22_Witness ==
    /\ last[1].op \in TechOps
    /\ last[1].resp = "status" /\ last[1].rstatus = 401
    /\ authenticated /\ headers = Bearer(token)


\* C23: get_translations called on an authenticated client with a language
\* outside the supported set issues GET i18n/en; with a supported language L
\* it issues GET i18n/L.
C23_TranslationsFallback ==
    [][\A t \in Tasks, l \in Languages :
          Calls(t, "get_translations") /\ arg'[t].language = l /\ authenticated =>
              /\ pc'[t] = "get"
              /\ inflight'[t].method = "GET"
              /\ l \notin TECH_SUPPORTED_LANGUAGES => inflight'[t].path = <<"i18n", "en">>
              /\ l \in TECH_SUPPORTED_LANGUAGES => inflight'[t].path = <<"i18n", l>>]_vars
\* A call with an unsupported language waits for its answer from i18n/en.
C23_Witness ==
    /\ op[1] = "get_translations" /\ pc[1] = "get"
    /\ arg[1].language \notin TECH_SUPPORTED_LANGUAGES
    /\ inflight[1].path = <<"i18n", "en">>


\* C24: the last-refresh timestamp of a module changes only in two kinds of
\* step: a module_data call for it returns, which sets it to the time that
\* call read when it took the lock and issued its fetch, not below the
\* timestamp it replaces; or a clear_module_cache resets it to None.  Lookups,
\* unguarded refreshes, commands and failed refreshes leave it as it is.
C24_Stamp(u) ==
    LET old == get_module_last_update(modules, u)
        new == get_module_last_update(modules', u) IN
    new # old =>
        \/ \E t \in Tasks :
              /\ pc[t] = "fetch" /\ op[t] \in GuardedOps /\ arg[t].udid = u
              /\ Ends(t) /\ last'[t].kind = "return"
              /\ new = [time |-> now[t]]
              /\ ~IsNone(old) => old.time <= now[t]
        \/ /\ new = None
           /\ \A t \in Tasks : ~Acts(t)
           /\ clock' = clock
C24_StampedOnlyByRefresh ==
    [][/\ \A u \in Udids : C24_Stamp(u)
       /\ \A t \in Tasks :
             /\ (pc[t] # "fetch" /\ pc'[t] = "fetch" /\ op'[t] \in GuardedOps)
                => now'[t] = clock /\ inflight'[t].issued = clock
             /\ (pc[t] = "fetch" /\ op[t] \in GuardedOps) => now'[t] = now[t]]_vars
\* A refresh that took the lock at time 0 has returned at time 1 and stamped
\* the module with 0, and a later lookup left the stamp as it is.
C24_Witness ==
    /\ clock = 1
    /\ last[2].op = "module_data" /\ last[2].kind = "return"
    /\ last[1].op = "get_zone" /\ last[1].kind = "return"
    /\ get_module_last_update(modules, "m1") = [time |-> 0]


\* What the cache holds for each module: a module without a record holds
\* no zone, no tile and no timestamp, like a module with an empty record.
CacheView(mods) ==
    [u \in Udids |-> IF u \in DOMAIN mods THEN mods[u] ELSE EmptyModule]

\* C25: every step of a module_data, get_module_zones or get_module_tiles call
\* other than the step that processes a decoded response of status 200 (the
\* call, taking the lock, and the end of a fetch that failed with a status
\* other than 200, malformed JSON, a connection error or a timeout) leaves the
\* zones, the tiles and the timestamp of every module as they are.
C25_FailedFetchKeepsCache ==
    [][\A t \in Tasks :
          (Acts(t) /\ op'[t] \in RefreshOps /\ (Ends(t) => last'[t].resp # "ok"))
              => CacheView(modules') = CacheView(modules)]_vars
\* A refresh of m1 timed out while zone 1 and a timestamp are cached.
C25_Witness ==
    /\ last[1].op = "module_data" /\ last[1].udid = "m1"
    /\ last[1].resp = "Timeout" /\ last[1].kind = "TechError"
    /\ "m1" \in DOMAIN modules /\ 1 \in DOMAIN modules["m1"].zones
    /\ ~IsNone(modules["m1"].last_update)
    /\ "m2" \in DOMAIN modules /\ 1 \in DOMAIN modules["m2"].tiles


\* Task t holds the lock: it is in the fetch of a guarded refresh, cancelled
\* or not.
Holds(t) == pc[t] \in {"fetch", "cancelled_fetch"} /\ op[t] \in GuardedOps
\* Task t waits for the lock, cancelled or not.
Waits(t) == pc[t] \in {"wait_lock", "cancelled_wait", "cancelled_woken"}
\* The refresh of task t was cancelled by the coordinator's timeout.
Cancelled(t) ==
    pc[t] = "idle" /\ last[t].op = "_async_update_data" /\ last[t].kind = "TimeoutError"

\* C26 as stated: the lock is free right after the step in which the guarded
\* refresh that holds it ends, whether it returns, raises or is cancelled;
\* every refresh that waits for the lock comes to hold it, and every refresh
\* that holds it ends.
C26_EveryWaiterAcquires ==
    /\ [][\A t \in Tasks : (Holds(t) /\ Ends(t)) => ~update_lock'.locked]_vars
    /\ \A t \in Tasks : (pc[t] = "wait_lock") ~> Holds(t)
    /\ \A t \in Tasks : Holds(t) ~> (pc[t] = "idle")

\* C26, amended: the lock is free right after the step in which the guarded
\* refresh that holds it ends, whether it returns, raises or is cancelled, and
\* a refresh that ends while it waits leaves the lock to its holder; every
\* refresh that waits for the lock comes to hold it or is ended by its
\* caller's timeout before it does, and every refresh that holds it ends.
C26_GuardReleased ==
    /\ [][\A t \in Tasks :
            /\ (Holds(t) /\ Ends(t)) => ~update_lock'.locked
            /\ (Waits(t) /\ Ends(t))
                  => /\ update_lock'.locked = update_lock.locked
                     /\ \A i \in 1..Len(update_lock'.waiters) :
                           update_lock'.waiters[i] # t]_vars
    /\ \A t \in Tasks : Waits(t) ~> (Holds(t) \/ Cancelled(t))
    /\ \A t \in Tasks : Holds(t) ~> (pc[t] = "idle")
\* The refresh of task 2 was ended by its timeout while it waited (it sent no
\* request) behind a refresh that was cancelled in its fetch, and the lock
\* is free again.
C26_Witness ==
    /\ Cancelled(1) /\ last[1].sent = 1
    /\ Cancelled(2) /\ last[2].sent = 0
    /\ ~update_lock.locked /\ update_lock.waiters = <<>>


\* C27: the merge of one response is all or nothing. The step in which a
\* refresh processes a decoded response either leaves the cache as it is or
\* leaves every valid entry the response carries for that operation in the
\* cache, and for a guarded refresh the zones, the tiles and the new timestamp
\* together; so no other task sees a record with part of a response merged.
C27_MergeAtomic ==
    [][\A t \in Tasks, p \in Payloads :
          (Merges(t, Ok(p)) /\ arg[t].udid \in DOMAIN modules) =>
             LET u == arg[t].udid IN
             \/ modules' = modules
             \/ /\ Overwritten(modules[u].zones, modules'[u].zones,
                               IF op[t] \in TileOps THEN EmptyDict
                               ELSE ZonesCarried(p))
                /\ Overwritten(modules[u].tiles, modules'[u].tiles,
                               IF op[t] \in ZoneOps THEN EmptyDict
                               ELSE TilesCarried(p))
                /\ op[t] \in GuardedOps =>
                      modules'[u].last_update = [time |-> now[t]]]_vars


\* C28: clearing the cache of one module or of all modules while a refresh
\* waits for its fetch does not make the refresh fail. Whenever a module_data,
\* get_module_zones or get_module_tiles call receives a decoded payload with
\* valid entries, it returns, and the module has a record that holds the
\* entries the payload carries for that operation.
C28_ClearDuringFetch ==
    [][\A t \in Tasks :
          (/\ pc[t] = "fetch" /\ op[t] \in RefreshOps
           /\ Ends(t) /\ last'[t].resp = "ok" /\ last'[t].wellformed)
          => LET u == arg[t].udid IN
             /\ last'[t].kind = "return"
             /\ u \in DOMAIN modules'
             /\ op[t] \notin TileOps => last'[t].zoneIds \subseteq DOMAIN modules'[u].zones
             /\ op[t] \notin ZoneOps => last'[t].tileIds \subseteq DOMAIN modules'[u].tiles]_vars


\* The version of the cached zone 1 and tile 1 of module m1: the time at which
\* the request that produced the entry was issued.
ZoneVersion(mods) == mods["m1"].zones[1].zone.currentTemperature
TileVersion(mods) == mods["m1"].tiles[1].version
HasZone(mods) == "m1" \in DOMAIN mods /\ 1 \in DOMAIN mods["m1"].zones
HasTile(mods) == "m1" \in DOMAIN mods /\ 1 \in DOMAIN mods["m1"].tiles

\* C29 as stated: a cached zone or tile entry is never overwritten with the
\* entry of a response whose request was issued earlier than the request that
\* produced the cached entry.
C29_NoStaleOverwrite ==
    [][/\ (HasZone(modules) /\ HasZone(modules'))
             => ZoneVersion(modules') >= ZoneVersion(modules)
       /\ (HasTile(modules) /\ HasTile(modules'))
             => TileVersion(modules') >= TileVersion(modules)]_vars

\* C29 as amended: the response merged last wins, in whatever order the
\* requests were issued. The step in which a refresh merges its response
\* leaves in the cache the entries of that response (the version its own
\* request was issued at), also over an entry that a later-issued request
\* produced.
C29_ArrivalOrderWins ==
    [][\A t \in Tasks :
          (/\ pc[t] = "fetch"
           /\ arg[t].udid \in DOMAIN modules
           /\ Merges(t, Ok(VersionPayload(inflight[t].issued))))
          => /\ op[t] \notin TileOps
                  => HasZone(modules') /\ ZoneVersion(modules') = inflight[t].issued
             /\ op[t] \notin ZoneOps
                  => HasTile(modules') /\ TileVersion(modules') = inflight[t].issued]_vars
\* All calls have completed: the guarded refresh issued at time 1 stamped the
\* module and stored version 1 of tile 1, and the unguarded zone refresh
\* issued at time 0 was merged after it, so that zone 1 is cached in version 0.
C29_Witness ==
    /\ \A t \in Tasks : pc[t] = "idle"
    /\ last[1].op = "get_module_zones" /\ last[1].kind = "return"
    /\ last[2].op = "module_data" /\ last[2].kind = "return"
    /\ HasZone(modules) /\ HasTile(modules)
    /\ modules["m1"].last_update = [time |-> 1]
    /\ ZoneVersion(modules) = 0 /\ TileVersion(modules) = 1


\* The handler of task t returns in this step without an API call, without a
\* refresh request and without a change of the target.
C30_Quiet(t) ==
    /\ pc'[t] = "idle" /\ last'[t].kind = "return"
    /\ last'[t].sent = 0 /\ inflight'[t] = None
    /\ entity'.calls = 0 /\ entity'.refreshes = 0
    /\ entity'.target = entity.target
    /\ modules' = modules

\* C30: async_set_temperature with a temperature below 5 or above 35 degrees
\* (or with none) issues no API call, requests no refresh and leaves the
\* target as it is. With a temperature from 5 to 35 degrees it calls
\* set_const_temp once with that temperature; when set_const_temp returns it
\* stores the temperature as the target and requests one refresh, in that
\* order and in one step, and returns when the request returns; in every step
\* in which set_const_temp is still running or fails the target stays and no
\* refresh is requested.
C30_SetTemperature ==
    [][\A t \in Tasks :
          /\ \A k \in Kwargs :
                async_set_temperature(t, k) =>
                    IF IsNone(k) THEN C30_Quiet(t)
                    ELSE IF k.temp < 500 \/ k.temp > 3500 THEN C30_Quiet(t)
                    ELSE /\ pc'[t] = "fetch" /\ op'[t] = "async_set_temperature"
                         /\ arg'[t] = Args("m1", 1, k.temp, FALSE, "")
                         /\ entity'.calls = 1 /\ entity'.refreshes = 0
                         /\ entity'.target = entity.target
          /\ (op[t] = "async_set_temperature" /\ pc[t] # "idle" /\ Acts(t)) =>
                /\ entity'.calls = 1
                /\ IF pc[t] = "post"
                      /\ (pc'[t] = "refresh" \/ (Ends(t) /\ last'[t].kind = "return"))
                   THEN /\ last'[t].sent = 2
                        /\ entity'.target = [temp |-> arg[t].target_temp]
                        /\ entity'.refreshes = 1
                   ELSE IF pc[t] = "refresh"
                   THEN /\ Ends(t) /\ last'[t].kind = "return" /\ last'[t].sent = 2
                        /\ entity' = entity
                   ELSE /\ Ends(t) => last'[t].kind # "return"
                        /\ entity'.target = entity.target
                        /\ entity'.refreshes = 0]_vars
\* A call with 35 degrees, the upper bound, returned: the target is 35 degrees
\* and a refresh is requested.
C30_Witness ==
    /\ last[1].op = "async_set_temperature" /\ last[1].kind = "return"
    /\ last[1].sent = 2
    /\ entity = [target |-> [temp |-> 3500], calls |-> 1, refreshes |-> 1]

\* The zones of the coordinator's data.
PolledZones == DataOf(coordinator, modules).zones
\* The coordinator's data reports zone 1 with a setTemperature, during a change
\* (d = TRUE) or not.
Polled(d) ==
    /\ 1 \in DOMAIN PolledZones
    /\ "setTemperature" \in DOMAIN PolledZones[1].zone
    /\ d = ("duringChange" \in DOMAIN PolledZones[1].zone
               /\ PolledZones[1].zone.duringChange)
\* The set_const_temp of the async_set_temperature of task t returns in this
\* step.
SetTemperatureReturns(t) ==
    /\ op[t] = "async_set_temperature" /\ pc[t] = "post"
    /\ pc'[t] = "refresh" \/ (Ends(t) /\ last'[t].kind = "return")

\* C31: while the coordinator's data reports the entity's zone with a
\* setTemperature and duringChange true, no step changes the entity's target
\* but a set-temperature action that returns, which stores its own
\* temperature; so a coordinator update keeps the target, the one the last
\* set-temperature action stored included.  A coordinator update on data that
\* reports the zone with a setTemperature and not during a change makes the
\* target a tenth of the setTemperature.  A coordinator update on data without
\* the zone returns without an error and leaves the entity as it is.  (On a
\* zone with null flags the update raises, after it treated the target so.)
C31_CoordinatorUpdate ==
    [][/\ (Polled(TRUE) /\ entity'.target # entity.target) =>
            \E t \in Tasks : /\ SetTemperatureReturns(t)
                              /\ entity'.target = [temp |-> arg[t].target_temp]
       /\ \A t \in Tasks :
             _handle_coordinator_update(t) =>
                /\ Polled(TRUE) => entity' = entity
                /\ Polled(FALSE) =>
                      entity' = [entity EXCEPT
                                    !.target = [temp |-> 10 * PolledZones[1].zone.setTemperature]]
                /\ 1 \notin DOMAIN PolledZones =>
                      entity' = entity /\ last'[t].kind = "return"]_vars
\* The set-temperature action of task 1 stored 21.5 degrees and the callback
\* then ran on task 1, on data that reports zone 1 during a change with a
\* setTemperature of 20 degrees (no refresh of the coordinator and no clearing
\* in between): the target is still 21.5 degrees.
C31_Witness ==
    /\ last[1].op = "_handle_coordinator_update" /\ last[1].kind = "return"
    /\ last[2] = NoLast /\ pc[2] = "idle" /\ coordinator = Live
    /\ Polled(TRUE) /\ PolledZones[1].zone.setTemperature = 200
    /\ entity.target = [temp |-> 2150]

====
